---- MODULE Spec2Model ----
(***************************************************************************)
(* A model of skywater_pdk/liberty.py: the timing-variant classifier, the  *)
(* corner/cell inventory, the attribute ordering index, the numeric        *)
(* formatter, the group serializer and the top-level assembler.            *)
(*                                                                         *)
(* Python strings are modelled as sequences of one-character strings, so   *)
(* that endswith, startswith, find and the ordering of strings are         *)
(* computed character by character as the code computes them.              *)
(***************************************************************************)
EXTENDS Integers, Sequences, FiniteSets, TLC

VARIABLES
    op,            \* the operation that produced the current state
    name,          \* TimingType.parse: its argument
    parsed,        \* TimingType.parse: its result (name, ttype)
    fargs,         \* cell_corner_file / top_corner_file: lib, cell and corner
    corner_type,   \* cell_corner_file / top_corner_file: the variant argument
    fresult,       \* cell_corner_file / top_corner_file: the outcome
    f_arg,         \* liberty_float: its argument f
    s_out,         \* liberty_float: the string s it returns
    attr_arg,      \* liberty_attribute_order: its argument attr_name
    attr_order,    \* liberty_attribute_order: the (primary, secondary) it returns
    sort_in,       \* sorted(..., key=liberty_attribute_order): the names given
    sort_out,      \* sorted(..., key=liberty_attribute_order): the names in order
    dict_data,     \* liberty_dict: the record given (its items in insertion order)
    dict_out,      \* liberty_dict: the lines returned, or the failure
    dict_owner,    \* liberty_dict: for each line, the key that wrote it
    list_v,        \* liberty_list: the sequence v given
    list_out,      \* liberty_list: the lines returned, or the failure
    strip_otype,   \* generate: the output variant ocorner_type
    strip_in,      \* generate: a record as loaded
    strip_out,     \* generate: the record after the stripping step
    fs,            \* main: the files of the library directory (their paths)
    argv,          \* main: args, the corners named and the two variant flags
    todo,          \* collect: the files rglob has still to yield
    scanned,       \* collect: libname0, corners and all_cells in its loop
    collected,     \* main: what collect returned
    sel,           \* main: the corners its loop has still to go through
    calls,         \* main: the calls of generate so far, each with what it left
    retcode        \* main: retcode, or the value returned

timingVars == <<name, parsed, fargs, corner_type, fresult>>

floatVars == <<f_arg, s_out>>

orderVars == <<attr_arg, attr_order, sort_in, sort_out>>

dictVars == <<dict_data, dict_out, dict_owner>>

listVars == <<list_v, list_out>>

stripVars == <<strip_otype, strip_in, strip_out>>

mainVars == <<fs, argv, todo, scanned, collected, sel, calls, retcode>>

vars == <<op, timingVars, floatVars, orderVars, dictVars, listVars, stripVars, mainVars>>

\* What the operations of one component leave alone
notTiming == <<floatVars, orderVars, dictVars, stripVars, mainVars, listVars>>

notFloat == <<timingVars, orderVars, dictVars, stripVars, mainVars, listVars>>

notOrder == <<timingVars, floatVars, dictVars, stripVars, mainVars, listVars>>

notDict == <<timingVars, floatVars, orderVars, stripVars, mainVars, listVars>>

notStrip == <<timingVars, floatVars, orderVars, dictVars, mainVars, listVars>>

notMain == <<timingVars, floatVars, orderVars, dictVars, stripVars, listVars>>

notList == <<timingVars, floatVars, orderVars, dictVars, stripVars, mainVars>>

(***************************************************************************)
(* Strings                                                                 *)
(***************************************************************************)

\* The printable ASCII characters in code point order: " " (32) to "_" (95)
ASCII_LOW ==
    <<" ","!","\"","#","$","%","&","'","(",")","*","+",",","-",".","/",
      "0","1","2","3","4","5","6","7","8","9",":",";","<","=",">","?",
      "@","A","B","C","D","E","F","G","H","I","J","K","L","M","N","O",
      "P","Q","R","S","T","U","V","W","X","Y","Z","[","\\","]","^","_">>

\* ... and "a" (97) to "~" (126)
ASCII_HIGH ==
    <<"a","b","c","d","e","f","g","h","i","j","k","l","m","n","o",
      "p","q","r","s","t","u","v","w","x","y","z","{","|","}","~">>

\* ord(c)
Ord(c) ==
    IF c = "\n" THEN 10
    ELSE IF \E i \in 1..Len(ASCII_LOW) : ASCII_LOW[i] = c
    THEN 31 + (CHOOSE i \in 1..Len(ASCII_LOW) : ASCII_LOW[i] = c)
    ELSE 96 + (CHOOSE i \in 1..Len(ASCII_HIGH) : ASCII_HIGH[i] = c)

Digits == {"0","1","2","3","4","5","6","7","8","9"}

\* int(c) of one digit
DigitVal(c) == Ord(c) - 48

\* str(d) of one digit value
DigitChr(d) == ASCII_LOW[d + 17]

\* s[i:j] with 1-based inclusive bounds (empty when j < i)
Slice(s, i, j) == SubSeq(s, i, j)

\* The sequence a function on 1..n stands for, as a tuple
AsTuple(fn) == fn \o <<>>

\* s.startswith(p)
StartsWith(s, p) == Len(p) <= Len(s) /\ \A i \in 1..Len(p) : s[i] = p[i]

\* s.endswith(p)
EndsWith(s, p) ==
    Len(p) <= Len(s) /\ \A i \in 1..Len(p) : s[Len(s) - Len(p) + i] = p[i]

\* The 1-based places where p occurs in s
Occurrences(s, p) ==
    {i \in 1..(Len(s) - Len(p) + 1) : \A j \in 1..Len(p) : s[i + j - 1] = p[j]}

\* s.find(p): the 0-based place of the first occurrence, or -1
Find(s, p) ==
    LET occ == Occurrences(s, p)
    IN  IF occ = {} THEN -1
        ELSE (CHOOSE i \in occ : \A j \in occ : i <= j) - 1

\* p in s
InStr(p, s) == Occurrences(s, p) # {}

\* a < b on strings: by code point, a proper prefix first
StrLess(a, b) ==
    \E i \in 1..(Len(b)) :
        /\ \A j \in 1..(i - 1) : j <= Len(a) /\ a[j] = b[j]
        /\ i - 1 <= Len(a)
        /\ (i > Len(a) \/ Ord(a[i]) < Ord(b[i]))

\* "".join(parts)
RECURSIVE Concat(_)
Concat(parts) ==
    IF parts = <<>> THEN <<>> ELSE Head(parts) \o Concat(Tail(parts))

\* sep.join(parts)
RECURSIVE Join(_, _)
Join(sep, parts) ==
    IF parts = <<>> THEN <<>>
    ELSE IF Len(parts) = 1 THEN parts[1]
    ELSE parts[1] \o sep \o Join(sep, Tail(parts))

\* The strings over alphabet S of length at most n
StringsUpTo(S, n) == UNION {[1..k -> S] : k \in 0..n}

(***************************************************************************)
(* TimingType: an IntFlag over basic = 1, ccsnoise = 2 | basic, leakage = 4*)
(***************************************************************************)

basic == 1

ccsnoise == 3

leakage == 4

\* The members of the enumeration in declaration order
TimingTypeMembers == <<basic, ccsnoise, leakage>>

\* Every value the three flag bits can form
TimingTypeValues == 0..7

BitsOf(v) == {i \in 0..2 : (v \div (2 ^ i)) % 2 = 1}

\* IntFlag.__contains__: other in self
FlagIn(other, self) == BitsOf(other) \subseteq BitsOf(self)

\* IntFlag.__or__
FlagOr(a, b) ==
    LET bits == BitsOf(a) \cup BitsOf(b)
    IN  (IF 0 \in bits THEN 1 ELSE 0) + (IF 1 \in bits THEN 2 ELSE 0)
        + (IF 2 \in bits THEN 4 ELSE 0)

SUFFIX_CCSNOISE == <<"_","c","c","s","n","o","i","s","e">>

SUFFIX_PWRLKG == <<"_","p","w","r","l","k","g">>

\* TimingType.file
file(self) ==
    IF self = ccsnoise THEN SUFFIX_CCSNOISE
    ELSE IF self = leakage THEN SUFFIX_PWRLKG
    ELSE <<>>

\* A parse that looks for the leakage suffix first and then also strips a
\* noise suffix in front of it.
parseStripsTwice(n) ==
    IF EndsWith(n, SUFFIX_PWRLKG)
    THEN LET m == Slice(n, 1, Len(n) - Len(SUFFIX_PWRLKG))
         IN  IF EndsWith(m, SUFFIX_CCSNOISE)
             THEN [name |-> Slice(m, 1, Len(m) - Len(SUFFIX_CCSNOISE)), ttype |-> leakage]
             ELSE [name |-> m, ttype |-> leakage]
    ELSE IF EndsWith(n, SUFFIX_CCSNOISE)
    THEN LET m == Slice(n, 1, Len(n) - Len(SUFFIX_CCSNOISE))
         IN  IF EndsWith(m, SUFFIX_PWRLKG)
             THEN [name |-> Slice(m, 1, Len(m) - Len(SUFFIX_PWRLKG)), ttype |-> ccsnoise]
             ELSE [name |-> m, ttype |-> ccsnoise]
    ELSE [name |-> n, ttype |-> basic]

\* TimingType.parse
parse(n) ==
    IF EndsWith(n, SUFFIX_CCSNOISE)
    THEN [name |-> Slice(n, 1, Len(n) - Len(SUFFIX_CCSNOISE)), ttype |-> ccsnoise]
    ELSE IF EndsWith(n, SUFFIX_PWRLKG)
    THEN [name |-> Slice(n, 1, Len(n) - Len(SUFFIX_PWRLKG)), ttype |-> leakage]
    ELSE [name |-> n, ttype |-> basic]

\* types that keeps basic beside ccsnoise
typesKeepsBasic(self) == {t \in {basic, ccsnoise, leakage} : FlagIn(t, self)}

\* TimingType.types (as a set: the code returns list(tt) of a set)
types(self) ==
    LET tt == {t \in {basic, ccsnoise, leakage} : FlagIn(t, self)}
    IN  IF ccsnoise \in tt THEN tt \ {basic} ELSE tt

\* TimingType.singular
singular(self) == Cardinality(types(self)) = 1

\* sizes.parse_size: the drive-strength token that ends a cell name, "_<digits>",
\* or the empty string when the name has none
parse_size(cell_with_size) ==
    LET cuts == {i \in 1..(Len(cell_with_size) - 1) :
                    /\ cell_with_size[i] = "_"
                    /\ \A j \in (i + 1)..Len(cell_with_size) : cell_with_size[j] \in Digits}
    IN  IF cuts = {} THEN <<>>
        ELSE Slice(cell_with_size, CHOOSE i \in cuts : TRUE, Len(cell_with_size))

STR_CELLS == <<"c","e","l","l","s","/">>

STR_TIMING == <<"t","i","m","i","n","g","/">>

STR_LIB_JSON == <<".","l","i","b",".","j","s","o","n">>

STR_SEP == <<"_","_">>

\* The outcome of an operation that can fail on an assertion
Failed == [ok |-> FALSE, path |-> <<>>]

Returned(path) == [ok |-> TRUE, path |-> path]

\* cell_corner_file
cell_corner_file(lib, cell_with_size, corner, ctype) ==
    IF ~singular(ctype) THEN Failed
    ELSE LET sz   == parse_size(cell_with_size)
             cell == IF sz # <<>>
                     THEN Slice(cell_with_size, 1, Len(cell_with_size) - Len(sz))
                     ELSE cell_with_size
         IN  Returned(STR_CELLS \o cell \o <<"/">> \o lib \o STR_SEP \o cell_with_size
                      \o STR_SEP \o corner \o file(ctype) \o STR_LIB_JSON)

\* top_corner_file
top_corner_file(libname, corner, ctype) ==
    IF ~singular(ctype) THEN Failed
    ELSE Returned(STR_TIMING \o libname \o STR_SEP \o corner \o file(ctype)
                  \o STR_LIB_JSON)

(***************************************************************************)
(* The classifier's operations as actions                                  *)
(***************************************************************************)

MaxBaseLen == 2

\* Identifiers: a short stem, possibly already ending in (part of) a suffix
IdentStems == StringsUpTo({"x", "_", "e"}, MaxBaseLen)

IdentTails ==
    {<<>>, SUFFIX_CCSNOISE, SUFFIX_PWRLKG,
     <<"_","c","c","s","n","o","i","s">>, <<"c","c","s","n","o","i","s","e">>,
     <<"p","w","r","l","k","g">>}

Idents == {s \o t : s \in IdentStems, t \in IdentTails}

LibNames == {<<"l","i","b">>}

CellNames == {<<"a">>, <<"a","_","1">>, <<"b","_","2">>}

CornerNames == {<<"t","t">>, <<"f","f">>}

TimingInit ==
    /\ name = <<>>
    /\ parsed = [name |-> <<>>, ttype |-> basic]
    /\ fargs = [lib |-> <<>>, cell |-> <<>>, corner |-> <<>>]
    /\ corner_type = basic
    /\ fresult = Failed

\* name, ttype = TimingType.parse(x + suffix)
Parse ==
    \E x \in Idents, sfx \in {<<>>, SUFFIX_CCSNOISE, SUFFIX_PWRLKG} :
        /\ op = "init"
        /\ op' = "parse"
        /\ name' = x \o sfx
        /\ parsed' = parse(x \o sfx)
        /\ UNCHANGED <<fargs, corner_type, fresult, notTiming>>

\* cell_corner_file(lib, cell_with_size, corner, corner_type)
CellCornerFile ==
    \E lib \in LibNames, cell \in CellNames, corner \in CornerNames,
       t \in TimingTypeValues :
        /\ op = "init"
        /\ op' = "cell_corner_file"
        /\ fargs' = [lib |-> lib, cell |-> cell, corner |-> corner]
        /\ corner_type' = t
        /\ fresult' = cell_corner_file(lib, cell, corner, t)
        /\ UNCHANGED <<name, parsed, notTiming>>

\* top_corner_file(libname, corner, corner_type)
TopCornerFile ==
    \E lib \in LibNames, corner \in CornerNames, t \in TimingTypeValues :
        /\ op = "init"
        /\ op' = "top_corner_file"
        /\ fargs' = [lib |-> lib, cell |-> <<>>, corner |-> corner]
        /\ corner_type' = t
        /\ fresult' = top_corner_file(lib, corner, t)
        /\ UNCHANGED <<name, parsed, notTiming>>

TimingNext == Parse \/ CellCornerFile \/ TopCornerFile

(***************************************************************************)
(* C1: for every identifier x, parse(x + "_ccsnoise") is (x, ccsnoise),    *)
(* parse(x + "_pwrlkg") is (x, leakage), and a name ending in neither      *)
(* suffix is returned whole with basic: at most one suffix is stripped.    *)
(* basic is contained in ccsnoise.                                         *)
(***************************************************************************)
C1_ParseStripsOneSuffix ==
    op = "parse" =>
        /\ \A x \in Idents :
            /\ name = x \o SUFFIX_CCSNOISE => parsed = [name |-> x, ttype |-> ccsnoise]
            /\ name = x \o SUFFIX_PWRLKG => parsed = [name |-> x, ttype |-> leakage]
        /\ (~EndsWith(name, SUFFIX_CCSNOISE) /\ ~EndsWith(name, SUFFIX_PWRLKG))
              => parsed = [name |-> name, ttype |-> basic]
        /\ parsed.ttype \in {basic, ccsnoise, leakage}
        /\ FlagIn(basic, ccsnoise)

\* A name carrying both suffixes has been parsed: only the last one is gone.
C1_Witness ==
    /\ op = "parse"
    /\ name = <<"x">> \o SUFFIX_PWRLKG \o SUFFIX_CCSNOISE
    /\ parsed = [name |-> <<"x">> \o SUFFIX_PWRLKG, ttype |-> ccsnoise]

(***************************************************************************)
(* C2: cell_corner_file and top_corner_file fail for every variant value   *)
(* that is not singular (the empty value, basic|leakage, ccsnoise|leakage) *)
(* and succeed for basic, ccsnoise and leakage with the suffixes "",       *)
(* "_ccsnoise" and "_pwrlkg".                                              *)
(***************************************************************************)
C2_SingularGate ==
    op \in {"cell_corner_file", "top_corner_file"} =>
        /\ corner_type \in {0, FlagOr(basic, leakage), FlagOr(ccsnoise, leakage)}
              => ~fresult.ok
        /\ ~singular(corner_type) => ~fresult.ok
        /\ corner_type = basic =>
              fresult.ok /\ EndsWith(fresult.path, fargs.corner \o STR_LIB_JSON)
        /\ corner_type = ccsnoise =>
              fresult.ok /\ EndsWith(fresult.path,
                                     fargs.corner \o SUFFIX_CCSNOISE \o STR_LIB_JSON)
        /\ corner_type = leakage =>
              fresult.ok /\ EndsWith(fresult.path,
                                     fargs.corner \o SUFFIX_PWRLKG \o STR_LIB_JSON)

\* A file name has been refused for ccsnoise|leakage and one built for ccsnoise.
C2_WitnessRefused ==
    op = "cell_corner_file" /\ corner_type = FlagOr(ccsnoise, leakage) /\ ~fresult.ok

(***************************************************************************)
(* The numeric formatter                                                   *)
(*                                                                         *)
(* A number is an int (sign and decimal digits) or a float, given by what  *)
(* repr shows of it: its sign, its shortest round-trip digits d1..dn and   *)
(* the place decpt of the decimal point (the value is 0.d1..dn * 10^decpt),*)
(* or one of the three non-finite floats.                                  *)
(***************************************************************************)

IntNum(neg, digits) == [kind |-> "int", neg |-> neg, digits |-> digits, decpt |-> 0]

FloatNum(neg, digits, decpt) ==
    [kind |-> "float", neg |-> neg, digits |-> digits, decpt |-> decpt]

NonFinite(neg, word) == [kind |-> "nonfinite", neg |-> neg, digits |-> word, decpt |-> 0]

\* A str where a number is expected: its characters, none of them escaped by json
Text(chars) == [kind |-> "str", neg |-> FALSE, digits |-> chars, decpt |-> 0]

STR_INFINITY == <<"I","n","f","i","n","i","t","y">>

STR_NAN == <<"N","a","N">>

\* n copies of character c
Repeat(c, n) == AsTuple([i \in 1..n |-> c])

\* str(n) of a natural number
RECURSIVE NatStr(_)
NatStr(n) == IF n < 10 THEN <<DigitChr(n)>> ELSE NatStr(n \div 10) \o <<DigitChr(n % 10)>>

Sign(neg) == IF neg THEN <<"-">> ELSE <<>>

\* float.__repr__: exponent notation when decpt <= -4 or decpt > 16, with an
\* exponent of at least two digits; otherwise positional, never without ".".
float_repr(x) ==
    LET d == x.digits
        n == Len(d)
        e == x.decpt - 1
    IN  Sign(x.neg) \o
        (IF x.decpt <= -4 \/ x.decpt > 16
         THEN <<d[1]>> \o (IF n > 1 THEN <<".">> \o Tail(d) ELSE <<>>) \o <<"e">>
              \o (IF e < 0 THEN <<"-">> ELSE <<"+">>)
              \o (LET a == NatStr(IF e < 0 THEN -e ELSE e)
                  IN  IF Len(a) < 2 THEN <<"0">> \o a ELSE a)
         ELSE IF x.decpt <= 0
         THEN <<"0", ".">> \o Repeat("0", -x.decpt) \o d
         ELSE IF x.decpt < n
         THEN Slice(d, 1, x.decpt) \o <<".">> \o Slice(d, x.decpt + 1, n)
         ELSE d \o Repeat("0", x.decpt - n) \o <<".", "0">>)

\* json.dumps of a number
json_dumps(x) ==
    IF x.kind = "str" THEN <<"\"">> \o x.digits \o <<"\"">>
    ELSE IF x.kind = "int" THEN Sign(x.neg) \o x.digits
    ELSE IF x.kind = "nonfinite" THEN Sign(x.neg) \o x.digits
    ELSE float_repr(x)

\* WIDTH = len(str(0.0083333333))
WIDTH == Len(float_repr(FloatNum(FALSE, <<"8","3","3","3","3","3","3","3">>, -2)))

\* s padded with "0" on the right to at least w characters
PadZeros(str, w) == IF Len(str) < w THEN str \o Repeat("0", w - Len(str)) ELSE str

\* A formatter that gives every integer its "." whatever its length
liberty_floatAlwaysDot(x) ==
    LET js == json_dumps(x)
    IN  IF InStr(<<"e">>, js)
        THEN LET k == Find(js, <<"e">>) + 1
                 a0 == Slice(js, 1, k - 1)
                 b == Slice(js, k + 1, Len(js))
                 a1 == IF ~InStr(<<".">>, a0) THEN a0 \o <<".">> ELSE a0
             IN  PadZeros(a1, WIDTH - Len(b) - 1) \o <<"e">> \o b
        ELSE IF InStr(<<".">>, js) THEN PadZeros(js, WIDTH)
        ELSE PadZeros(js \o <<".">>, WIDTH)

\* liberty_float
liberty_float(x) ==
    LET js == json_dumps(x)
    IN  IF InStr(<<"e">>, js)
        THEN \* a, b = s.split('e')
             LET k == Find(js, <<"e">>) + 1
                 a0 == Slice(js, 1, k - 1)
                 b == Slice(js, k + 1, Len(js))
                 a1 == IF ~InStr(<<".">>, a0) THEN a0 \o <<".">> ELSE a0
             IN  \* while len(a)+len(b)+1 < WIDTH: a += '0'
                 PadZeros(a1, WIDTH - Len(b) - 1) \o <<"e">> \o b
        ELSE IF InStr(<<".">>, js)
        THEN PadZeros(js, WIDTH)
        ELSE PadZeros(IF Len(js) < WIDTH THEN js \o <<".">> ELSE js, WIDTH)

MaxIntDigits == 13

MaxSigDigits == 17

MaxDecpt == 19

MaxNegDecpt == 6

\* Digit strings with no leading zero: a leading digit and a repeated digit
IntDigitStrings ==
    {<<"0">>} \cup
    {<<d1>> \o Repeat(d, n - 1) : d1 \in {"1", "9"}, d \in {"0", "7"}, n \in 1..MaxIntDigits}

\* Shortest round-trip digits: no leading and no trailing zero
FloatDigitStrings ==
    {Repeat(d, n) : d \in {"1", "5"}, n \in 1..MaxSigDigits}

Numbers ==
    {IntNum(neg, d) : neg \in BOOLEAN, d \in IntDigitStrings}
    \cup {FloatNum(neg, d, p) : neg \in BOOLEAN, d \in FloatDigitStrings,
                             p \in (-MaxNegDecpt)..MaxDecpt}
    \cup {FloatNum(neg, <<"0">>, 1) : neg \in BOOLEAN}
    \cup {NonFinite(FALSE, STR_NAN), NonFinite(FALSE, STR_INFINITY),
          NonFinite(TRUE, STR_INFINITY)}

FloatInit ==
    /\ f_arg = IntNum(FALSE, <<"0">>)
    /\ s_out = <<>>

\* s_out = liberty_float(f)
LibertyFloat ==
    \E x \in Numbers :
        /\ op = "init"
        /\ op' = "liberty_float"
        /\ f_arg' = x
        /\ s_out' = liberty_float(x)
        /\ UNCHANGED notFloat

FloatNext == LibertyFloat

(***************************************************************************)
(* C5 as stated: every rendered number is at least 12 characters wide, and *)
(* every integer, of any number of digits, gains a "." right after its     *)
(* digits before the zero padding.                                         *)
(***************************************************************************)
C5_EveryIntegerGainsDot ==
    op = "liberty_float" =>
        /\ Len(s_out) >= 12
        /\ f_arg.kind = "int" =>
              LET js == Sign(f_arg.neg) \o f_arg.digits
              IN  /\ Len(s_out) > Len(js)
                  /\ Slice(s_out, 1, Len(js) + 1) = js \o <<".">>
                  /\ \A i \in (Len(js) + 2)..Len(s_out) : s_out[i] = "0"

(***************************************************************************)
(* C5 amended: every rendered number is at least 12 characters wide; an    *)
(* integer whose decimal text (sign included) is shorter than 12           *)
(* characters gains a "." and zeros up to 12 characters, and an integer of *)
(* 12 characters or more is returned as it is, without a ".".              *)
(***************************************************************************)
C5_WidthAndDotBelowWidth ==
    op = "liberty_float" =>
        /\ Len(s_out) >= 12
        /\ f_arg.kind = "int" =>
              LET js == Sign(f_arg.neg) \o f_arg.digits
              IN  IF Len(js) < 12
                  THEN /\ Len(s_out) = 12
                       /\ Slice(s_out, 1, Len(js) + 1) = js \o <<".">>
                       /\ \A i \in (Len(js) + 2)..Len(s_out) : s_out[i] = "0"
                  ELSE s_out = js

\* A 12-digit integer has been rendered, and the result has no ".".
C5_Witness ==
    /\ op = "liberty_float"
    /\ f_arg.kind = "int" /\ ~f_arg.neg /\ Len(f_arg.digits) = 12
    /\ ~InStr(<<".">>, s_out)

(***************************************************************************)
(* The attribute ordering index                                            *)
(***************************************************************************)

\* LIBERTY_ATTRIBUTE_ORDER: the grammar template with its /* ... */ comments
\* removed, one row of the template per line
LIBERTY_ATTRIBUTE_ORDER ==
    <<"\n">> \o
    <<"l","i","b","r","a","r","y"," ","(","n","a","m","e","_","s","t","r","i","n","g",")"," ","{","\n">> \o
    <<" "," "," "," ","\n">> \o
    <<" "," "," "," ","d","e","f","i","n","e"," ","(",".",".",".",",",".",".",".",",",".",".",".",")"," ",";","\n">> \o
    <<" "," "," "," ","t","e","c","h","n","o","l","o","g","y"," ","(","n","a","m","e","_","e","n","u","m",")"," ",";","\n">> \o
    <<" "," "," "," ","d","e","l","a","y","_","m","o","d","e","l"," ",":"," ","\"","m","o","d","e","l","\""," ",";","\n">> \o
    <<"\n">> \o
    <<" "," "," "," ","b","u","s","_","n","a","m","i","n","g","_","s","t","y","l","e"," ",":"," ","\"","s","t","r","i","n","g","\""," ",";","\n">> \o
    <<" "," "," "," ","d","a","t","e"," ",":"," ","\"","d","a","t","e","\""," ",";","\n">> \o
    <<" "," "," "," ","c","o","m","m","e","n","t"," ",":"," ","\"","s","t","r","i","n","g","\""," ",";","\n">> \o
    <<"\n">> \o
    <<" "," "," "," ","\n">> \o
    <<" "," "," "," ","t","i","m","e","_","u","n","i","t"," ",":"," ","\"","u","n","i","t","\""," ",";","\n">> \o
    <<" "," "," "," ","v","o","l","t","a","g","e","_","u","n","i","t"," ",":"," ","\"","u","n","i","t","\""," ",";","\n">> \o
    <<" "," "," "," ","l","e","a","k","a","g","e","_","p","o","w","e","r","_","u","n","i","t"," ",":"," ","\"","u","n","i","t","\""," ",";","\n">> \o
    <<" "," "," "," ","c","u","r","r","e","n","t","_","u","n","i","t"," ",":"," ","\"","u","n","i","t","\""," ",";","\n">> \o
    <<" "," "," "," ","p","u","l","l","i","n","g","_","r","e","s","i","s","t","a","n","c","e","_","u","n","i","t"," ",":"," ","\"","u","n","i","t","\""," ",";","\n">> \o
    <<" "," "," "," ",".",".",".","_","u","n","i","t"," ",":"," ","\"","u","n","i","t","\""," ",";","\n">> \o
    <<" "," "," "," ","\n">> \o
    <<" "," "," "," ","c","a","p","a","c","i","t","i","v","e","_","l","o","a","d","_","u","n","i","t"," ","(","v","a","l","u","e",","," ","u","n","i","t",")"," ",";","\n">> \o
    <<"\n">> \o
    <<" "," "," "," ","\n">> \o
    <<" "," "," "," ","d","e","f","i","n","e","_","c","e","l","l","_","a","r","e","a"," ","(","a","r","e","a","_","n","a","m","e",","," ","r","e","s","o","u","r","c","e","_","t","y","p","e",")"," ",";","\n">> \o
    <<"\n">> \o
    <<" "," "," "," ","r","e","v","i","s","i","o","n"," ",":"," ","f","l","o","a","t"," ","|"," ","s","t","r","i","n","g"," ",";","\n">> \o
    <<"\n">> \o
    <<" "," "," "," ","\n">> \o
    <<" "," "," "," ","d","e","f","a","u","l","t","_","c","e","l","l","_","l","e","a","k","a","g","e","_","p","o","w","e","r"," ",":"," ","f","l","o","a","t"," ",";","\n">> \o
    <<" "," "," "," ","d","e","f","a","u","l","t","_","f","a","n","o","u","t","_","l","o","a","d"," ",":"," ","f","l","o","a","t"," ",";","\n">> \o
    <<" "," "," "," ","d","e","f","a","u","l","t","_","i","n","o","u","t","_","p","i","n","_","c","a","p"," ",":"," ","f","l","o","a","t"," ",";","\n">> \o
    <<" "," "," "," ","d","e","f","a","u","l","t","_","i","n","p","u","t","_","p","i","n","_","c","a","p"," ",":"," ","f","l","o","a","t"," ",";","\n">> \o
    <<" "," "," "," ","d","e","f","a","u","l","t","_","m","a","x","_","t","r","a","n","s","i","t","i","o","n"," ",":"," ","f","l","o","a","t"," ",";","\n">> \o
    <<" "," "," "," ","d","e","f","a","u","l","t","_","o","u","t","p","u","t","_","p","i","n","_","c","a","p"," ",":"," ","f","l","o","a","t"," ",";","\n">> \o
    <<" "," "," "," ","d","e","f","a","u","l","t","_",".",".","."," ",":"," ",".",".","."," ",";","\n">> \o
    <<"\n">> \o
    <<" "," "," "," ","\n">> \o
    <<" "," "," "," ","k","_","p","r","o","c","e","s","s","_","c","e","l","l","_","f","a","l","l"," ",".",".","."," ",";","\n">> \o
    <<" "," "," "," ","k","_","p","r","o","c","e","s","s","_","c","e","l","l","_","r","i","s","e"," ",".",".","."," ",";","\n">> \o
    <<" "," "," "," ","k","_","p","r","o","c","e","s","s","_","f","a","l","l","_","p","r","o","p","a","g","a","t","i","o","n"," ",".",".","."," ",";","\n">> \o
    <<" "," "," "," ","k","_","p","r","o","c","e","s","s","_","f","a","l","l","_","t","r","a","n","s","i","t","i","o","n"," ",".",".","."," ",";","\n">> \o
    <<" "," "," "," ","k","_","p","r","o","c","e","s","s","_","r","i","s","e","_","p","r","o","p","a","g","a","t","i","o","n"," ",".",".","."," ",";","\n">> \o
    <<" "," "," "," ","k","_","p","r","o","c","e","s","s","_","r","i","s","e","_","t","r","a","n","s","i","t","i","o","n"," ",".",".","."," ",";","\n">> \o
    <<" "," "," "," ","k","_","t","e","m","p","_","c","e","l","l","_","f","a","l","l"," ",".",".","."," ",";","\n">> \o
    <<" "," "," "," ","k","_","t","e","m","p","_","c","e","l","l","_","r","i","s","e"," ",".",".","."," ",";","\n">> \o
    <<" "," "," "," ","k","_","t","e","m","p","_","f","a","l","l","_","p","r","o","p","a","g","a","t","i","o","n"," ",".",".","."," ",";","\n">> \o
    <<" "," "," "," ","k","_","t","e","m","p","_","f","a","l","l","_","t","r","a","n","s","i","t","i","o","n"," ",".",".","."," ",";","\n">> \o
    <<" "," "," "," ","k","_","t","e","m","p","_","r","i","s","e","_","p","r","o","p","a","g","a","t","i","o","n"," ",".",".","."," ",";","\n">> \o
    <<" "," "," "," ","k","_","t","e","m","p","_","r","i","s","e","_","t","r","a","n","s","i","t","i","o","n"," ",".",".","."," ",";","\n">> \o
    <<" "," "," "," ","k","_","v","o","l","t","_","c","e","l","l","_","f","a","l","l"," ",".",".","."," ",";","\n">> \o
    <<" "," "," "," ","k","_","v","o","l","t","_","c","e","l","l","_","r","i","s","e"," ",".",".","."," ",";","\n">> \o
    <<" "," "," "," ","k","_","v","o","l","t","_","f","a","l","l","_","p","r","o","p","a","g","a","t","i","o","n"," ",".",".","."," ",";","\n">> \o
    <<" "," "," "," ","k","_","v","o","l","t","_","f","a","l","l","_","t","r","a","n","s","i","t","i","o","n"," ",".",".","."," ",";","\n">> \o
    <<" "," "," "," ","k","_","v","o","l","t","_","r","i","s","e","_","p","r","o","p","a","g","a","t","i","o","n"," ",".",".","."," ",";","\n">> \o
    <<" "," "," "," ","k","_","v","o","l","t","_","r","i","s","e","_","t","r","a","n","s","i","t","i","o","n"," ",".",".","."," ",";","\n">> \o
    <<" "," "," "," ","k","_",".",".","."," ",":"," ",".",".","."," ",";","\n">> \o
    <<"\n">> \o
    <<" "," "," "," ","\n">> \o
    <<" "," "," "," ","o","p","e","r","a","t","i","n","g","_","c","o","n","d","i","t","i","o","n","s"," ","(","n","a","m","e","_","s","t","r","i","n","g",")"," ","{","\n">> \o
    <<" "," "," "," "," "," "," "," ",".",".","."," ","o","p","e","r","a","t","i","n","g"," ","c","o","n","d","i","t","i","o","n","s"," ","d","e","s","c","r","i","p","t","i","o","n"," ",".",".",".","\n">> \o
    <<" "," "," "," ","}","\n">> \o
    <<" "," "," "," ","w","i","r","e","_","l","o","a","d"," ","(","n","a","m","e","_","s","t","r","i","n","g",")"," ","{","\n">> \o
    <<" "," "," "," "," "," "," "," ",".",".","."," ","w","i","r","e"," ","l","o","a","d"," ","d","e","s","c","r","i","p","t","i","o","n"," ",".",".",".","\n">> \o
    <<" "," "," "," ","}","\n">> \o
    <<" "," "," "," ","w","i","r","e","_","l","o","a","d","_","s","e","l","e","c","t","i","o","n"," ","(","n","a","m","e","_","s","t","r","i","n","g",")"," ","{","\n">> \o
    <<" "," "," "," "," "," "," "," ",".",".","."," ","w","i","r","e"," ","l","o","a","d"," ","s","e","l","e","c","t","i","o","n"," ","c","r","i","t","e","r","i","a",".",".",".","\n">> \o
    <<" "," "," "," ","}","\n">> \o
    <<" "," "," "," ","p","o","w","e","r","_","l","u","t","_","t","e","m","p","l","a","t","e"," ","(","n","a","m","e","s","t","r","i","n","g",")"," "," ","{","\n">> \o
    <<" "," "," "," "," "," "," "," ",".",".","."," ","p","o","w","e","r"," ","l","o","o","k","u","p"," ","t","a","b","l","e"," ","t","e","m","p","l","a","t","e"," ","i","n","f","o","r","m","a","t","i","o","n",".",".",".","\n">> \o
    <<" "," "," "," ","}","\n">> \o
    <<" "," "," "," ","l","u","_","t","a","b","l","e","_","t","e","m","p","l","a","t","e"," ","(","n","a","m","e","_","s","t","r","i","n","g",")"," ","{","\n">> \o
    <<" "," "," "," "," "," "," "," ","v","a","r","i","a","b","l","e","_","1"," ",":"," ","v","a","l","u","e","_","e","n","u","m"," ",";","\n">> \o
    <<" "," "," "," "," "," "," "," ","v","a","r","i","a","b","l","e","_","2"," ",":"," ","v","a","l","u","e","_","e","n","u","m"," ",";","\n">> \o
    <<" "," "," "," "," "," "," "," ","v","a","r","i","a","b","l","e","_","3"," ",":"," ","v","a","l","u","e","_","e","n","u","m"," ",";","\n">> \o
    <<" "," "," "," "," "," "," "," ","i","n","d","e","x","_","1"," ","(","\"","f","l","o","a","t",","," ",".",".",".",","," ","f","l","o","a","t","\"",")",";","\n">> \o
    <<" "," "," "," "," "," "," "," ","i","n","d","e","x","_","2"," ","(","\"","f","l","o","a","t",","," ",".",".",".",","," ","f","l","o","a","t","\"",")",";","\n">> \o
    <<" "," "," "," "," "," "," "," ","i","n","d","e","x","_","3"," ","(","\"","f","l","o","a","t",","," ",".",".",".",","," ","f","l","o","a","t","\"",")",";","\n">> \o
    <<" "," "," "," ","}","\n">> \o
    <<" "," "," "," ","n","o","r","m","a","l","i","z","e","d","_","d","r","i","v","e","r","_","w","a","v","e","f","o","r","m"," ","(","w","a","v","e","f","o","r","m","_","t","e","m","p","l","a","t","e","_","n","a","m","e",")"," ","{","\n">> \o
    <<" "," "," "," "," "," "," "," ","d","r","i","v","e","r","_","w","a","v","e","f","o","r","m","_","n","a","m","e"," ",":"," ","s","t","r","i","n","g",";"," ","\n">> \o
    <<" "," "," "," "," "," "," "," ","i","n","d","e","x","_","1"," ","(","\"","f","l","o","a","t",","," ",".",".","."," ","f","l","o","a","t","\"",")",";"," ","\n">> \o
    <<" "," "," "," "," "," "," "," ","i","n","d","e","x","_","2"," ","(","\"","f","l","o","a","t",","," ",".",".","."," ","f","l","o","a","t","\"",")",";"," ","\n">> \o
    <<" "," "," "," "," "," "," "," ","v","a","l","u","e","s"," ","(","\"","f","l","o","a","t",","," ",".",".","."," ","f","l","o","a","t","\"",","," ","\\"," ","\n">> \o
    <<" "," "," "," "," "," "," "," "," "," "," "," ",".",".","."," ",","," ","\\","\n">> \o
    <<" "," "," "," "," "," "," "," "," "," "," "," ","\"","f","l","o","a","t",","," ",".",".","."," ","f","l","o","a","t","\"",")",";","\n">> \o
    <<" "," "," "," ","}","\n">> \o
    <<"\n">> \o
    <<" "," "," "," ","\n">> \o
    <<" "," "," "," ","c","e","l","l"," ","(","n","a","m","e","s","t","r","i","n","g","2",")"," ","{","\n">> \o
    <<" "," "," "," "," "," "," "," ",".",".","."," ","c","e","l","l"," ","d","e","s","c","r","i","p","t","i","o","n"," ",".",".",".","\n">> \o
    <<" "," "," "," ","}","\n">> \o
    <<"\n">> \o
    <<" "," "," "," ",".",".",".","\n">> \o
    <<"\n">> \o
    <<" "," "," "," ","\n">> \o
    <<" "," "," "," ","t","y","p","e"," ","(","n","a","m","e","s","t","r","i","n","g",")"," ","{","\n">> \o
    <<" "," "," "," "," "," "," "," ",".",".","."," ","t","y","p","e"," ","d","e","s","c","r","i","p","t","i","o","n"," ",".",".",".","\n">> \o
    <<" "," "," "," ","}","\n">> \o
    <<" "," "," "," ","i","n","p","u","t","_","v","o","l","t","a","g","e"," ","(","n","a","m","e","_","s","t","r","i","n","g",")"," ","{","\n">> \o
    <<" "," "," "," "," "," "," "," ",".",".","."," ","i","n","p","u","t"," ","v","o","l","t","a","g","e"," ","i","n","f","o","r","m","a","t","i","o","n"," ",".",".",".","\n">> \o
    <<" "," "," "," ","}","\n">> \o
    <<" "," "," "," ","o","u","t","p","u","t","_","v","o","l","t","a","g","e"," ","(","n","a","m","e","_","s","t","r","i","n","g",")"," ","{","\n">> \o
    <<" "," "," "," "," "," "," "," ",".",".","."," ","o","u","t","p","u","t"," ","v","o","l","t","a","g","e"," ","i","n","f","o","r","m","a","t","i","o","n"," ",".",".",".","\n">> \o
    <<" "," "," "," ","}","\n">> \o
    <<"}","\n">>

\* float('inf') and the finite positions: the floats the ordering uses
Inf == [inf |-> TRUE, v |-> 0]

Fin(n) == [inf |-> FALSE, v |-> n]

\* a < b on these floats
FloatLess(a, b) == ~a.inf /\ (b.inf \/ a.v < b.v)

\* a < b on (primary, secondary) tuples
OrderLess(a, b) == FloatLess(a[1], b[1]) \/ (a[1] = b[1] /\ FloatLess(a[2], b[2]))

\* _lookup_attribute_pos returns None
None == -1

\* The characters of the template
TemplateChars == {LIBERTY_ATTRIBUTE_ORDER[i] : i \in 1..Len(LIBERTY_ATTRIBUTE_ORDER)}

\* For each character c, the places of the template where " " and then c
\* stand: every occurrence of " " + name starts at one of them
AfterBlank ==
    [c \in TemplateChars |->
        {i \in 1..(Len(LIBERTY_ATTRIBUTE_ORDER) - 1) :
            LIBERTY_ATTRIBUTE_ORDER[i] = " " /\ LIBERTY_ATTRIBUTE_ORDER[i + 1] = c}]

\* LIBERTY_ATTRIBUTE_ORDER.find(p) for a p of two characters or more that
\* starts with " "
FindInTemplate(p) ==
    LET occ == IF p[2] \in TemplateChars
               THEN {i \in AfterBlank[p[2]] :
                        /\ i + Len(p) - 1 <= Len(LIBERTY_ATTRIBUTE_ORDER)
                        /\ \A j \in 3..Len(p) : LIBERTY_ATTRIBUTE_ORDER[i + j - 1] = p[j]}
               ELSE {}
    IN  IF occ = {} THEN -1 ELSE (CHOOSE i \in occ : \A j \in occ : i <= j) - 1

\* _lookup_attribute_pos
lookup_attribute_pos(n) ==
    LET n1 == <<" ">> \o n
        n2 == IF EndsWith(n1, <<"_">>) THEN n1 \o <<" ">> ELSE n1
    IN  IF Len(n2) < 2 THEN Find(LIBERTY_ATTRIBUTE_ORDER, n2) ELSE FindInTemplate(n2)

\* not i, for i a position or None: None and 0.0 are both false
Falsy(i) == i = None \/ i = 0

\* RE_LIBERTY_LIST.match(attr_name): the places of a "_" followed by a digit.
\* The greedy (.*) takes the last of them (no name here holds a line break).
ListCuts(attr_name) ==
    {i \in 1..(Len(attr_name) - 1) : attr_name[i] = "_" /\ attr_name[i + 1] \in Digits}

ListCut(attr_name) ==
    LET cuts == ListCuts(attr_name) IN CHOOSE i \in cuts : \A j \in cuts : j <= i

\* m.group(1)
ListBase(attr_name) == Slice(attr_name, 1, ListCut(attr_name) - 1)

\* m.group(2): the digits after the "_", as many as there are
ListDigits(attr_name) ==
    LET c == ListCut(attr_name)
        e == CHOOSE j \in (c + 1)..Len(attr_name) :
                 /\ \A i \in (c + 1)..j : attr_name[i] \in Digits
                 /\ (j = Len(attr_name) \/ attr_name[j + 1] \notin Digits)
    IN  Slice(attr_name, c + 1, e)

\* A suffix read as its first digit only
DigitsValueFirstOnly(ds) == DigitVal(ds[1])

\* float(n) of a string of digits
RECURSIVE DigitsValue(_)
DigitsValue(ds) ==
    IF ds = <<>> THEN 0
    ELSE 10 * DigitsValue(Slice(ds, 1, Len(ds) - 1)) + DigitVal(ds[Len(ds)])

STR_DEFAULT_ == <<"d","e","f","a","u","l","t","_">>

STR_DEFAULT_ETC == <<"d","e","f","a","u","l","t","_",".",".",".">>

STR__UNIT == <<"_","u","n","i","t">>

STR_ETC_UNIT == <<".",".",".","_","u","n","i","t">>

STR_K_ == <<"k","_">>

STR_K_ETC == <<"k","_",".",".",".">>

\* liberty_attribute_order, for a name without ":" (the code asserts it)
liberty_attribute_order(attr_name) ==
    IF ListCuts(attr_name) # {}
    THEN LET i == lookup_attribute_pos(ListBase(attr_name))
         IN  <<IF Falsy(i) THEN Inf ELSE Fin(i), Fin(DigitsValue(ListDigits(attr_name)))>>
    ELSE LET i == lookup_attribute_pos(attr_name)
         IN  IF ~Falsy(i) THEN <<Fin(i), Fin(0)>>
             ELSE LET n1 == IF InStr(<<"(">>, attr_name)
                            THEN Slice(attr_name, 1, Find(attr_name, <<"(">>))
                            ELSE attr_name
                      n2 == IF InStr(STR_DEFAULT_, attr_name) THEN STR_DEFAULT_ETC ELSE n1
                      n3 == IF InStr(STR__UNIT, attr_name) THEN STR_ETC_UNIT ELSE n2
                      n4 == IF InStr(STR_K_, attr_name) THEN STR_K_ETC ELSE n3
                      j  == lookup_attribute_pos(n4)
                  IN  IF ~Falsy(j) THEN <<Fin(j), Fin(0)>> ELSE <<Inf, Inf>>

\* sorted(seq) for a strict weak order Less: every element goes behind those
\* that are less and behind the earlier ones it ties with (the sort is stable)
StableSort(seq, Less(_, _)) ==
    LET n == Len(seq)
        rank == AsTuple([i \in 1..n |->
                    1 + Cardinality({j \in (1..n) \ {i} :
                            \/ Less(seq[j], seq[i])
                            \/ (~Less(seq[i], seq[j]) /\ j < i)})])
    IN  AsTuple([r \in 1..n |-> seq[CHOOSE i \in 1..n : rank[i] = r]])

\* Less on (key, item) pairs whose key is an order value
KeyedOrderLess(a, b) == OrderLess(a[1], b[1])

\* sorted(names, key=liberty_attribute_order): the key is computed once for
\* each name
sorted_by_attribute_order(names) ==
    LET keyed == AsTuple([i \in 1..Len(names) |->
                            <<liberty_attribute_order(names[i]), names[i]>>])
        srt == StableSort(keyed, KeyedOrderLess)
    IN  AsTuple([i \in 1..Len(names) |-> srt[i][2]])

STR_INDEX == <<"i","n","d","e","x">>

STR_VARIABLE == <<"v","a","r","i","a","b","l","e">>

STR_VALUES == <<"v","a","l","u","e","s">>

MaxIndex == 12

\* Bases of indexed names: in the template, absent from it, holding an index
\* themselves, ending in "_"
IndexedBases ==
    {STR_INDEX, STR_VARIABLE, STR_VALUES, <<"f","o","o">>, STR_INDEX \o <<"_","1">>,
     <<"k","_">>, <<"x","1">>, <<>>}

Indexed(base, n) == base \o <<"_">> \o NatStr(n)

\* Attribute names that may come with an argument list; all but "nothing" are
\* entries of the template, three of them inside a prefix class
ParenBases ==
    {<<"t","e","c","h","n","o","l","o","g","y">>, <<"d","e","l","a","y","_","m","o","d","e","l">>, <<"n","o","t","h","i","n","g">>,
     <<"c","a","p","a","c","i","t","i","v","e","_","l","o","a","d","_","u","n","i","t">>, <<"t","i","m","e","_","u","n","i","t">>,
     <<"d","e","f","a","u","l","t","_","m","a","x","_","t","r","a","n","s","i","t","i","o","n">>, <<"k","_","v","o","l","t","_","c","e","l","l","_","r","i","s","e">>}

ParenArgs == {<<"(","x",")">>, <<"(","1",",","p","f",")">>, <<"(","c","_","1",")">>}

\* base(args)
ParenNames == {b \o a : b \in ParenBases, a \in ParenArgs}

AttrNames ==
    {Indexed(b, n) : b \in IndexedBases, n \in 0..MaxIndex}
    \cup {Indexed(STR_INDEX, 1) \o <<"x">>, STR_INDEX \o <<"_","0","7">>}
    \cup IndexedBases
    \cup ParenNames \cup ParenBases
    \cup {<<"d","e","f","i","n","e">>, <<"c","e","l","l">>,
          <<"t","i","m","e","_","u","n","i","t">>, <<"a",":","b">>}

\* The names the doctest sorts, and index_10
SortPool ==
    {Indexed(STR_INDEX, 1), Indexed(STR_INDEX, 2), Indexed(STR_INDEX, 10),
     Indexed(STR_VARIABLE, 1), Indexed(STR_VARIABLE, 2), STR_VALUES}

MaxSortLen == 3

SortInputs ==
    {q \in UNION {[1..n -> SortPool] : n \in 2..MaxSortLen} :
        \A i, j \in 1..Len(q) : i # j => q[i] # q[j]}

OrderInit ==
    /\ attr_arg = <<>>
    /\ attr_order = <<Inf, Inf>>
    /\ sort_in = <<>>
    /\ sort_out = <<>>

\* liberty_attribute_order(attr_arg); a name with ":" fails the assertion
LibertyAttributeOrder ==
    \E n \in AttrNames :
        /\ op = "init"
        /\ attr_arg' = n
        /\ IF InStr(<<":">>, n)
           THEN op' = "failed" /\ UNCHANGED attr_order
           ELSE op' = "liberty_attribute_order" /\ attr_order' = liberty_attribute_order(n)
        /\ UNCHANGED <<sort_in, sort_out, notOrder>>

\* sorted(names, key=liberty_attribute_order)
SortedByAttributeOrder ==
    \E q \in SortInputs :
        /\ op = "init"
        /\ op' = "sorted"
        /\ sort_in' = q
        /\ sort_out' = sorted_by_attribute_order(q)
        /\ UNCHANGED <<attr_arg, attr_order, notOrder>>

OrderNext == LibertyAttributeOrder \/ SortedByAttributeOrder

(***************************************************************************)
(* C10: for an indexed name <base>_<integer>, liberty_attribute_order      *)
(* returns the template position of <base> as primary key (infinity when   *)
(* the base has none) and the integer as secondary key, so names with the  *)
(* same base sort by the number: index_1 < index_2 < ... < index_10.       *)
(***************************************************************************)
C10_IndexedByNumber ==
    /\ op = "liberty_attribute_order" =>
          \A b \in IndexedBases, n \in 0..(MaxIndex + 1) :
              attr_arg = Indexed(b, n) =>
                  /\ attr_order[2] = Fin(n)
                  /\ attr_order[1] =
                        (IF Occurrences(LIBERTY_ATTRIBUTE_ORDER,
                                        <<" ">> \o b \o (IF EndsWith(<<" ">> \o b, <<"_">>)
                                                         THEN <<" ">> ELSE <<>>)) = {}
                         THEN Inf
                         ELSE Fin(lookup_attribute_pos(b)))
    /\ op = "sorted" =>
          LET parts == [i \in 1..Len(sort_out) |->
                          {bn \in IndexedBases \X (0..(MaxIndex + 1)) :
                              sort_out[i] = Indexed(bn[1], bn[2])}]
          IN  \A i, j \in 1..Len(sort_out) :
                  i < j => \A x \in parts[i], y \in parts[j] : x[1] = y[1] => x[2] < y[2]

\* index_10 was given before index_2 and index_1 and has been sorted behind them.
C10_Witness ==
    /\ op = "sorted"
    /\ sort_in = <<Indexed(STR_INDEX, 10), Indexed(STR_INDEX, 2), Indexed(STR_INDEX, 1)>>
    /\ sort_out = <<Indexed(STR_INDEX, 1), Indexed(STR_INDEX, 2), Indexed(STR_INDEX, 10)>>

\* attr_name contains "default_", "_unit" or "k_"
InPrefixClass(attr_name) ==
    \/ InStr(STR_DEFAULT_, attr_name)
    \/ InStr(STR__UNIT, attr_name)
    \/ InStr(STR_K_, attr_name)

(***************************************************************************)
(* C11: for every attribute name of the form base(args) that has no exact  *)
(* template match, liberty_attribute_order strips the argument list and    *)
(* retries the lookup before any prefix-class fallback: when base has the  *)
(* template position p the result is (p, 0), also when the name contains   *)
(* "default_", "_unit" or "k_".                                            *)
(***************************************************************************)
C11_ParenRetryBeforePrefixClass ==
    op = "liberty_attribute_order" =>
        \A b \in ParenBases, a \in ParenArgs :
            (/\ attr_arg = b \o a
             /\ Falsy(lookup_attribute_pos(attr_arg))
             /\ ~Falsy(lookup_attribute_pos(b)))
            => attr_order = <<Fin(lookup_attribute_pos(b)), Fin(0)>>

\* What does hold: a name base(args) outside the prefix classes, and with no
\* "_" before a digit, gets the position of base.
C11_ParenRetryOutsidePrefixClass ==
    op = "liberty_attribute_order" =>
        \A b \in ParenBases, a \in ParenArgs :
            (/\ attr_arg = b \o a
             /\ ~InPrefixClass(attr_arg)
             /\ ListCuts(attr_arg) = {}
             /\ Falsy(lookup_attribute_pos(attr_arg))
             /\ ~Falsy(lookup_attribute_pos(b)))
            => attr_order = <<Fin(lookup_attribute_pos(b)), Fin(0)>>

\* capacitive_load_unit(1,pf) has been given the position of ..._unit
C11_UnitClassWins ==
    /\ op = "liberty_attribute_order"
    /\ attr_arg = <<"c","a","p","a","c","i","t","i","v","e","_","l","o","a","d","_","u","n","i","t","(","1",",","p","f",")">>
    /\ attr_order = <<Fin(lookup_attribute_pos(STR_ETC_UNIT)), Fin(0)>>
    /\ attr_order # <<Fin(lookup_attribute_pos(<<"c","a","p","a","c","i","t","i","v","e","_","l","o","a","d","_","u","n","i","t">>)), Fin(0)>>

(***************************************************************************)
(* Records and values                                                      *)
(*                                                                         *)
(* A loaded value is a string, a number, a dict (its items in insertion    *)
(* order, the keys distinct) or a list.                                    *)
(***************************************************************************)

Str(chars) == [t |-> "str", v |-> chars]

Num(x) == [t |-> "num", v |-> x]

Dict(items) == [t |-> "dict", v |-> items]

List(elems) == [t |-> "list", v |-> elems]

\* k in d, for the items d of a dict
DictHas(d, k) == \E i \in 1..Len(d) : d[i][1] = k

\* d[k]
DictGet(d, k) == d[CHOOSE i \in 1..Len(d) : d[i][1] = k][2]

\* The keys of d in insertion order
DictKeys(d) == AsTuple([i \in 1..Len(d) |-> d[i][1]])

\* d without the keys in ks
DictWithout(d, ks) == SelectSeq(d, LAMBDA it : it[1] \notin ks)

\* d with d[k] = v assigned: in place for a key it has, at the end otherwise
DictSet(d, k, v) ==
    IF DictHas(d, k)
    THEN AsTuple([i \in 1..Len(d) |-> IF d[i][1] = k THEN <<k, v>> ELSE d[i]])
    ELSE Append(d, <<k, v>>)

(***************************************************************************)
(* The outcome of a renderer: its lines, or a failure (an assertion or a   *)
(* ValueError, KeyError, IndexError raised on the way)                     *)
(***************************************************************************)

Raised == [ok |-> FALSE, lines |-> <<>>]

Lines(ls) == [ok |-> TRUE, lines |-> ls]

\* o.extend(...) of two outcomes
Extend(a, b) == IF a.ok /\ b.ok THEN Lines(a.lines \o b.lines) ELSE Raised

\* INDENT
INDENT == <<" "," "," "," ">>

\* INDENT * n
RECURSIVE Indent(_)
Indent(n) == IF n <= 0 THEN <<>> ELSE INDENT \o Indent(n - 1)

\* '"%s"' % chars
Quoted(chars) == <<"\"">> \o chars \o <<"\"">>

(***************************************************************************)
(* The composite and list value emitters                                   *)
(***************************************************************************)

\* One element of a composite: a number by liberty_float, a string in
\* quotes (which it must not hold itself); anything else raises
CompositeElement(l) ==
    IF l.t = "num" THEN Lines(<<liberty_float(l.v)>>)
    ELSE IF l.t = "str" /\ ~InStr(<<"\"">>, l.v) THEN Lines(<<Quoted(l.v)>>)
    ELSE Raised

RECURSIVE CompositeElements(_)
CompositeElements(v) ==
    IF v = <<>> THEN Lines(<<>>)
    ELSE Extend(CompositeElement(Head(v)), CompositeElements(Tail(v)))

\* liberty_composite(k, v, i) with depth = len(i); v is given as loaded (a
\* scalar is wrapped into a list first)
RECURSIVE liberty_composite(_, _, _)
liberty_composite(k, v, depth) ==
    LET vl == IF v.t = "list" THEN v.v ELSE <<v>>
    IN  IF vl = <<>> THEN Raised                      \* v[0]: IndexError
        ELSE IF vl[1].t = "list"
        THEN LET RECURSIVE Rows(_)
                 Rows(rest) ==
                     IF rest = <<>> THEN Lines(<<>>)
                     ELSE Extend(liberty_composite(k, Head(rest), depth), Rows(Tail(rest)))
             IN  Rows(vl)
        ELSE LET o == CompositeElements(vl)
             IN  IF ~o.ok THEN Raised
                 ELSE Lines(<<Indent(depth) \o k \o <<"(">> \o Join(<<",", " ">>, o.lines)
                              \o <<")", ";">>>>)

\* An int or a float among the numbers
IsInt(l) == l.t = "num" /\ l.v.kind = "int"

IsFloat(l) == l.t = "num" /\ l.v.kind # "int"

\* liberty_join(l): "float" when l holds a float and otherwise only ints,
\* "int" when it holds only ints (and at least one); it raises otherwise
liberty_join(l) ==
    LET nf == Cardinality({i \in 1..Len(l) : IsFloat(l[i])})
        ni == Cardinality({i \in 1..Len(l) : IsInt(l[i])})
    IN  IF nf > 0 THEN (IF nf + ni = Len(l) THEN "float" ELSE "raise")
        ELSE IF ni > 0 THEN (IF ni = Len(l) THEN "int" ELSE "raise")
        ELSE "raise"

\* str(x) of a number or a str
str_of(x) == IF x.kind = "str" THEN x.digits ELSE json_dumps(x)

\* An element of a sequence as liberty_float and str get it
Scalar(e) == IF e.t = "str" THEN Text(e.v) ELSE e.v

\* The function liberty_join returned, applied to a sequence of numbers and strs
joined(how, l) ==
    Join(<<",", " ">>,
         AsTuple([i \in 1..Len(l) |->
                     IF how = "float" THEN liberty_float(Scalar(l[i]))
                     ELSE str_of(Scalar(l[i]))]))

\* The last n characters of s dropped: s[:-n]
DropLast(str, n) == Slice(str, 1, Len(str) - n)

\* s.lstrip() of the blanks
RECURSIVE LStrip(_)
LStrip(str) == IF str # <<>> /\ Head(str) = " " THEN LStrip(Tail(str)) ELSE str

\* liberty_list(k, v, i) with depth = len(i), for a list v of numbers or of
\* rows of numbers
liberty_list(k, v, depth) ==
    IF v[1].t = "list"
    THEN LET how == liberty_join(v[1].v)
         IN  IF how = "raise" THEN Raised
             ELSE LET rows == AsTuple([r \in 1..Len(v) |->
                                 Indent(depth + 1) \o <<"\"">> \o joined(how, v[r].v)
                                 \o <<"\"", ",", " ", "\\">>])
                      o0   == Indent(depth) \o k \o <<"(">>
                      o1   == <<o0 \o LStrip(rows[1])>> \o Tail(rows)
                      last == DropLast(o1[Len(o1)], 3) \o <<")", ";">>
                  IN  Lines(Slice(o1, 1, Len(o1) - 1) \o <<last>>)
    ELSE LET how == liberty_join(v)
         IN  IF how = "raise" THEN Raised
             ELSE Lines(<<Indent(depth) \o k \o <<"(", "\"">> \o joined(how, v)
                          \o <<"\"", ")", ";">>>>)

\* is_liberty_list
is_liberty_list(k) ==
    LET kk == IF ListCuts(k) # {} THEN ListBase(k) ELSE k
    IN  kk \in {STR_VARIABLE, STR_INDEX, STR_VALUES}

(***************************************************************************)
(* The sort key of a group's attributes                                    *)
(***************************************************************************)

\* a < b on tuples: the first place where they differ decides, a proper
\* prefix comes first
SeqLess(a, b, ElemLess(_, _)) ==
    \E i \in 1..Len(b) :
        /\ i - 1 <= Len(a)
        /\ \A j \in 1..(i - 1) : a[j] = b[j]
        /\ (i > Len(a) \/ ElemLess(a[i], b[i]))

\* One element of what sortable_extracted_numbers returns
TextBit(chars) == [num |-> FALSE, n |-> 0, txt |-> chars]

NumBit(n) == [num |-> TRUE, n |-> n, txt |-> <<>>]

\* utils.sortable_extracted_numbers: the string cut at its runs of digits,
\* text, number, text, ..., the numbers as integers
RECURSIVE sortable_extracted_numbers(_)
sortable_extracted_numbers(str) ==
    LET ds == {i \in 1..Len(str) : str[i] \in Digits}
    IN  IF ds = {} THEN <<TextBit(str)>>
        ELSE LET i == CHOOSE x \in ds : \A y \in ds : x <= y
                 j == CHOOSE x \in i..Len(str) :
                          /\ \A y \in i..x : str[y] \in Digits
                          /\ (x = Len(str) \/ str[x + 1] \notin Digits)
             IN  <<TextBit(Slice(str, 1, i - 1)), NumBit(DigitsValue(Slice(str, i, j)))>>
                 \o sortable_extracted_numbers(Slice(str, j + 1, Len(str)))

\* a < b on such elements: text with text, number with number
BitLess(a, b) == IF a.num /\ b.num THEN a.n < b.n ELSE StrLess(a.txt, b.txt)

\* k.split(" ", 1): the type token and the rest of a key
KeyType(k) == IF InStr(<<" ">>, k) THEN Slice(k, 1, Find(k, <<" ">>)) ELSE k

KeyValue(k) == IF InStr(<<" ">>, k) THEN Slice(k, Find(k, <<" ">>) + 2, Len(k)) ELSE <<>>

STR_COMP_ATTRIBUTE == <<"c","o","m","p","_","a","t","t","r","i","b","u","t","e">>

STR_DEFINE == <<"d","e","f","i","n","e">>

STR_CLK_WIDTH == <<"c","l","k","_","w","i","d","t","h">>

\* The name a key is ranked by: what follows the marker for a composite,
\* the type token otherwise
RankedName(k) == IF KeyType(k) = STR_COMP_ATTRIBUTE THEN KeyValue(k) ELSE KeyType(k)

\* A sort key that ranks a composite by its marker, like any other key
attr_sort_keyByTypeToken(item) ==
    LET k == item[1]
    IN  [kt  |-> liberty_attribute_order(KeyType(k)),
         ktype |-> KeyType(k),
         kv  |-> IF InStr(<<" ">>, k) THEN sortable_extracted_numbers(KeyValue(k)) ELSE <<>>,
         kvalue |-> KeyValue(k),
         k |-> k,
         v |-> item[2]]

\* attr_sort_key: (sortable_kt, ktype, sortable_kv, kvalue, k, v); k and v
\* are kept under their names for the loop that follows
attr_sort_key(item) ==
    LET k == item[1]
    IN  [kt  |-> liberty_attribute_order(RankedName(k)),
         ktype |-> KeyType(k),
         kv  |-> IF InStr(<<" ">>, k) THEN sortable_extracted_numbers(KeyValue(k)) ELSE <<>>,
         kvalue |-> KeyValue(k),
         k |-> k,
         v |-> item[2]]

\* A comparison that stops at the rank: peers stay as the record has them
SortKeyLessRankOnly(a, b) == OrderLess(a.kt, b.kt)

\* a < b on sort keys. The keys of a dict differ, so the comparison never
\* reaches v
SortKeyLess(a, b) ==
    \/ OrderLess(a.kt, b.kt)
    \/ /\ a.kt = b.kt
       /\ \/ StrLess(a.ktype, b.ktype)
          \/ /\ a.ktype = b.ktype
             /\ \/ SeqLess(a.kv, b.kv, BitLess)
                \/ /\ a.kv = b.kv
                   /\ \/ StrLess(a.kvalue, b.kvalue)
                      \/ (a.kvalue = b.kvalue /\ StrLess(a.k, b.k))

\* di = [attr_sort_key(i) for i in data.items()]; di.sort()
sorted_items(data) ==
    StableSort(AsTuple([i \in 1..Len(data) |-> attr_sort_key(data[i])]), SortKeyLess)

(***************************************************************************)
(* sorted(v, key=lambda o: o.items()) of a list of dicts: list.sort with   *)
(* "<" on the items views, which is "proper subset of"                     *)
(***************************************************************************)

\* a.items() < b.items()
ItemsLess(a, b) ==
    /\ Len(a.v) < Len(b.v)
    /\ \A i \in 1..Len(a.v) : \E j \in 1..Len(b.v) : a.v[i] = b.v[j]

Reverse(q) == AsTuple([i \in 1..Len(q) |-> q[Len(q) + 1 - i]])

\* count_run: the length of the run the list starts with, strictly
\* descending (then reversed in place) or not descending
CountRun(q) ==
    LET desc == ItemsLess(q[2], q[1])
        stop == {m \in 3..Len(q) : ItemsLess(q[m], q[m - 1]) # desc}
    IN  IF stop = {} THEN Len(q) ELSE (CHOOSE m \in stop : \A x \in stop : m <= x) - 1

\* binarysort: where the pivot goes in the sorted prefix
RECURSIVE BinarySearch(_, _, _, _)
BinarySearch(prefix, pivot, l, r) ==
    IF l >= r THEN l
    ELSE LET p == l + ((r - l) \div 2)
         IN  IF ItemsLess(pivot, prefix[p + 1])
             THEN BinarySearch(prefix, pivot, l, p)
             ELSE BinarySearch(prefix, pivot, p + 1, r)

RECURSIVE BinarySort(_, _)
BinarySort(prefix, rest) ==
    IF rest = <<>> THEN prefix
    ELSE LET l == BinarySearch(prefix, Head(rest), 0, Len(prefix))
         IN  BinarySort(Slice(prefix, 1, l) \o <<Head(rest)>>
                        \o Slice(prefix, l + 1, Len(prefix)), Tail(rest))

sorted_by_items(v) ==
    IF Len(v) < 2 THEN v
    ELSE LET n   == CountRun(v)
             run == IF ItemsLess(v[2], v[1]) THEN Reverse(Slice(v, 1, n)) ELSE Slice(v, 1, n)
         IN  BinarySort(run, Slice(v, n + 1, Len(v)))

(***************************************************************************)
(* The recursive group serializer                                          *)
(***************************************************************************)

\* str.split(c) for a one-character separator
RECURSIVE Split(_, _)
Split(str, c) ==
    IF ~InStr(<<c>>, str) THEN <<str>>
    ELSE <<Slice(str, 1, Find(str, <<c>>))>>
         \o Split(Slice(str, Find(str, <<c>>) + 2, Len(str)), c)

Whitespace == {" ", "\n", "\t", "\r"}

\* str.strip()
RECURSIVE Strip(_)
Strip(str) ==
    IF str # <<>> /\ Head(str) \in Whitespace THEN Strip(Tail(str))
    ELSE IF str # <<>> /\ str[Len(str)] \in Whitespace THEN Strip(DropLast(str, 1))
    ELSE str

\* The group's arguments as the header shows them: cut at the commas, each
\* bit out of its quotes (a bit holding a quote must start and end with
\* one), stripped and quoted again
HeaderArgs(dvalue) ==
    IF dvalue = <<>> THEN Lines(<<<<>>>>)
    ELSE LET dbits == Split(dvalue, ",")
             bad == \E j \in 1..Len(dbits) :
                        /\ InStr(<<"\"">>, dbits[j])
                        /\ ~(StartsWith(dbits[j], <<"\"">>) /\ EndsWith(dbits[j], <<"\"">>))
             unq == AsTuple([j \in 1..Len(dbits) |->
                        IF InStr(<<"\"">>, dbits[j])
                        THEN Slice(dbits[j], 2, Len(dbits[j]) - 1)
                        ELSE dbits[j]])
         IN  IF bad THEN Raised
             ELSE Lines(<<Join(<<",">>,
                               AsTuple([j \in 1..Len(unq) |-> Quoted(Strip(unq[j]))]))>>)

STR_GROUP_NAME == <<"g","r","o","u","p","_","n","a","m","e">>

STR_ATTRIBUTE_NAME == <<"a","t","t","r","i","b","u","t","e","_","n","a","m","e">>

STR_ATTRIBUTE_TYPE == <<"a","t","t","r","i","b","u","t","e","_","t","y","p","e">>

\* d['group_name'] + '.' + d['attribute_name']
DefineKey(d) == DictGet(d.v, STR_GROUP_NAME).v \o <<".">> \o DictGet(d.v, STR_ATTRIBUTE_NAME).v

DefineLess(a, b) == StrLess(DefineKey(a), DefineKey(b))

\* A define entry the loop can read: a dict with the three strings
IsDefine(d) ==
    /\ d.t = "dict"
    /\ \A key \in {STR_GROUP_NAME, STR_ATTRIBUTE_NAME, STR_ATTRIBUTE_TYPE} :
          DictHas(d.v, key) /\ DictGet(d.v, key).t = "str"

\* The define(...) lines of data['define']
DefineLines(data, depth) ==
    IF ~DictHas(data, STR_DEFINE) THEN Raised
    ELSE LET ds == DictGet(data, STR_DEFINE)
         IN  IF ds.t # "list" \/ \E i \in 1..Len(ds.v) : ~IsDefine(ds.v[i]) THEN Raised
             ELSE LET srt == StableSort(ds.v, DefineLess)
                  IN  Lines(AsTuple([i \in 1..Len(srt) |->
                          Indent(depth) \o STR_DEFINE \o <<"(">>
                          \o DictGet(srt[i].v, STR_ATTRIBUTE_NAME).v \o <<",">>
                          \o DictGet(srt[i].v, STR_GROUP_NAME).v \o <<",">>
                          \o DictGet(srt[i].v, STR_ATTRIBUTE_TYPE).v \o <<")", ";">>]))

\* |x| < |y| on finite numbers: by the place of the point, then by the digits
MagLess(x, y) ==
    LET zx == x.digits = <<"0">>
        zy == y.digits = <<"0">>
        px == IF x.kind = "int" THEN Len(x.digits) ELSE x.decpt
        py == IF y.kind = "int" THEN Len(y.digits) ELSE y.decpt
    IN  IF zx \/ zy THEN zx /\ ~zy
        ELSE px < py \/ (px = py /\ StrLess(x.digits, y.digits))

\* x < y on finite numbers
NumLess(x, y) ==
    IF x.neg # y.neg THEN x.neg /\ ~(x.digits = <<"0">> /\ y.digits = <<"0">>)
    ELSE IF x.neg THEN MagLess(y, x) ELSE MagLess(x, y)

ScalarLess(a, b) == IF a.t = "num" THEN NumLess(a.v, b.v) ELSE StrLess(a.v, b.v)

\* "%s" % l of a scalar
PercentS(l) == IF l.t = "num" THEN str_of(l.v) ELSE l.v

\* The lines of a clk_width list: sorted, one "k : value;" each. A list that
\* mixes strings and numbers cannot be sorted.
ClkWidthLines(k, v, depth) ==
    IF \E i \in 1..Len(v) : v[i].t \notin {"num", "str"} \/ v[i].t # v[1].t THEN Raised
    ELSE LET srt == StableSort(v, ScalarLess)
         IN  Lines(AsTuple([i \in 1..Len(srt) |->
                 Indent(depth) \o k \o <<" ", ":", " ">> \o PercentS(srt[i]) \o <<";">>]))

RECURSIVE liberty_dict(_, _, _, _)
RECURSIVE RenderItem(_, _, _)
RECURSIVE RenderItems(_, _, _)
RECURSIVE RenderGroups(_, _, _, _)

\* The lines one attribute adds: one turn of the loop over di, with
\* depth = len(indent_n)
RenderItem(e, data, depth) ==
    IF e.ktype = STR_DEFINE THEN DefineLines(data, depth)
    ELSE IF e.ktype = STR_COMP_ATTRIBUTE THEN liberty_composite(e.kvalue, e.v, depth)
    ELSE IF e.v.t = "dict" THEN liberty_dict(e.ktype, e.kvalue, e.v.v, depth)
    ELSE IF e.v.t = "list"
    THEN IF e.v.v = <<>> THEN Raised
         ELSE IF e.v.v[1].t = "dict"
         THEN IF \E i \in 1..Len(e.v.v) : e.v.v[i].t # "dict" THEN Raised
              ELSE RenderGroups(e.ktype, e.kvalue, sorted_by_items(e.v.v), depth)
         ELSE IF is_liberty_list(e.ktype) THEN liberty_list(e.ktype, e.v.v, depth)
         ELSE IF e.ktype = STR_CLK_WIDTH THEN ClkWidthLines(e.k, e.v.v, depth)
         ELSE Raised
    ELSE Lines(<<Indent(depth) \o e.k \o <<" ", ":", " ">>
                 \o (IF e.v.t = "str" THEN Quoted(e.v.v) ELSE liberty_float(e.v.v))
                 \o <<";">>>>)

\* The loop over di
RenderItems(di, data, depth) ==
    IF di = <<>> THEN Lines(<<>>)
    ELSE Extend(RenderItem(Head(di), data, depth), RenderItems(Tail(di), data, depth))

\* One group for each dict of a sorted list
RenderGroups(ktype, kvalue, ls, depth) ==
    IF ls = <<>> THEN Lines(<<>>)
    ELSE Extend(liberty_dict(ktype, kvalue, Head(ls).v, depth),
                RenderGroups(ktype, kvalue, Tail(ls), depth))

\* liberty_dict(dtype, dvalue, data, indent) with depth = len(indent); data
\* is the items of the dict
liberty_dict(dtype, dvalue, data, depth) ==
    LET args == HeaderArgs(dvalue)
    IN  IF ~args.ok \/ \E i \in 1..Len(data) : InStr(<<":">>, RankedName(data[i][1]))
        THEN Raised
        ELSE Extend(Lines(<<Indent(depth) \o dtype \o <<" ", "(">> \o args.lines[1]
                            \o <<")", " ", "{">>>>),
             Extend(RenderItems(sorted_items(data), data, depth + 1),
                    Lines(<<Indent(depth) \o <<"}">>>>)))

(***************************************************************************)
(* liberty_dict as an action, on records built from a pool of attributes   *)
(***************************************************************************)

\* For every line of liberty_dict's output the key whose turn of the loop
\* wrote it: <<>> for the opening and the closing line
RECURSIVE ItemOwners(_, _, _)
ItemOwners(di, data, depth) ==
    IF di = <<>> THEN <<>>
    ELSE Repeat(Head(di).k, Len(RenderItem(Head(di), data, depth).lines))
         \o ItemOwners(Tail(di), data, depth)

LineOwners(data) ==
    IF ~liberty_dict(<<"g">>, <<>>, data, 0).ok THEN <<>>
    ELSE <<<<>>>> \o ItemOwners(sorted_items(data), data, 1) \o <<<<>>>>

KEY_DELAY_MODEL == <<"d","e","l","a","y","_","m","o","d","e","l">>

KEY_TIME_UNIT == <<"t","i","m","e","_","u","n","i","t">>

KEY_CELL_X == <<"c","e","l","l"," ","x">>

KEY_COMP_TECHNOLOGY == STR_COMP_ATTRIBUTE \o <<" ","t","e","c","h","n","o","l","o","g","y">>

KEY_COMP_VOLTAGE_MAP == STR_COMP_ATTRIBUTE \o <<" ","v","o","l","t","a","g","e","_","m","a","p">>

KEY_AREA == <<"a","r","e","a">>

KEY_ZETA == <<"z","e","t","a">>

KEY_UPPER == <<"B","e","t","a">>

KEY_INDEX_2 == <<"i","n","d","e","x","_","2">>

\* The attributes a record is built from. In the template: delay_model,
\* time_unit, cell, technology (as a composite), index. Not in it: area, zeta,
\* Beta, voltage_map (as a composite).
AttributePool ==
    <<<<KEY_DELAY_MODEL, Str(<<"m">>)>>,
      <<KEY_TIME_UNIT, Str(<<"1","n","s">>)>>,
      <<KEY_CELL_X, Dict(<<<<KEY_AREA, Num(IntNum(FALSE, <<"1">>))>>>>)>>,
      <<KEY_COMP_TECHNOLOGY, List(<<Str(<<"c","m","o","s">>)>>)>>,
      <<KEY_COMP_VOLTAGE_MAP,
        List(<<List(<<Str(<<"v">>), Num(FloatNum(FALSE, <<"1","9","5">>, 1))>>),
               List(<<Str(<<"w">>), Num(FloatNum(FALSE, <<"0">>, 1))>>)>>)>>,
      <<KEY_AREA, Num(IntNum(FALSE, <<"2">>))>>,
      <<KEY_ZETA, Num(FloatNum(FALSE, <<"1","5">>, 1))>>,
      <<KEY_UPPER, Str(<<"b">>)>>,
      <<KEY_INDEX_2, List(<<Num(IntNum(FALSE, <<"1">>)), Num(FloatNum(FALSE, <<"2">>, 1))>>)>>>>

MaxAttributes == 3

KEY_TIMING == <<"t","i","m","i","n","g">>

KEY_RELATED_PIN == <<"r","e","l","a","t","e","d","_","p","i","n">>

KEY_TIMING_TYPE == <<"t","i","m","i","n","g","_","t","y","p","e">>

\* The dicts a list of groups is built from: two that differ in a value, one
\* that holds another and more, and an empty one
GroupPool ==
    <<Dict(<<<<KEY_RELATED_PIN, Str(<<"A">>)>>>>),
      Dict(<<<<KEY_RELATED_PIN, Str(<<"B">>)>>>>),
      Dict(<<<<KEY_RELATED_PIN, Str(<<"A">>)>>, <<KEY_TIMING_TYPE, Str(<<"x">>)>>>>),
      Dict(<<>>)>>

MaxGroups == 3

\* Up to MaxGroups different dicts of the pool, in any order
GroupLists ==
    {AsTuple([i \in 1..Len(q) |-> GroupPool[q[i]]]) :
        q \in {p \in UNION {[1..n -> 1..Len(GroupPool)] : n \in 1..MaxGroups} :
                  \A i, j \in 1..Len(p) : i # j => p[i] # p[j]}}

\* A record whose one key holds a list of groups
GroupRecords == {<<<<KEY_TIMING, List(q)>>>> : q \in GroupLists}

\* Up to MaxAttributes attributes of the pool, in any order
PoolRecords ==
    {AsTuple([i \in 1..Len(q) |-> AttributePool[q[i]]]) :
        q \in {p \in UNION {[1..n -> 1..Len(AttributePool)] : n \in 0..MaxAttributes} :
                  \A i, j \in 1..Len(p) : i # j => p[i] # p[j]}}

\* The records liberty_dict is called with
Records == PoolRecords \cup GroupRecords

DictInit ==
    /\ dict_data = <<>>
    /\ dict_out = Raised
    /\ dict_owner = <<>>

\* output = liberty_dict("g", "", data)
LibertyDict ==
    \E rec \in Records :
        /\ op = "init"
        /\ op' = "liberty_dict"
        /\ dict_data' = rec
        /\ dict_out' = liberty_dict(<<"g">>, <<>>, rec, 0)
        /\ dict_owner' = LineOwners(rec)
        /\ UNCHANGED notDict

DictNext == LibertyDict

\* The lines key k wrote
LinesOf(k) == {i \in 1..Len(dict_owner) : dict_owner[i] = k}

\* Every line of key a stands before every line of key b
Precedes(a, b) == \A i \in LinesOf(a), j \in LinesOf(b) : i < j

RecordKeys == {dict_data[i][1] : i \in 1..Len(dict_data)}

\* The place of key k in the record: its insertion order
Inserted(k) == CHOOSE i \in 1..Len(dict_data) : dict_data[i][1] = k

(***************************************************************************)
(* C3 as stated: for two keys of the record whose type tokens A and B have *)
(* liberty_attribute_order(A) < liberty_attribute_order(B), every line     *)
(* emitted for A precedes every line emitted for B.                        *)
(***************************************************************************)
C3_OrderedByTypeToken ==
    op = "liberty_dict" =>
        \A a, b \in RecordKeys :
            OrderLess(liberty_attribute_order(KeyType(a)),
                      liberty_attribute_order(KeyType(b))) => Precedes(a, b)

(***************************************************************************)
(* C3 amended: the same with the name a key is ranked by: its type token,  *)
(* or, for a "comp_attribute <name>" key, the <name> after the marker.     *)
(***************************************************************************)
C3_OrderedByRankedName ==
    op = "liberty_dict" =>
        /\ dict_out.ok /\ Len(dict_owner) = Len(dict_out.lines)
        /\ \A a \in RecordKeys : LinesOf(a) # {}
        /\ \A a, b \in RecordKeys :
              OrderLess(liberty_attribute_order(IF KeyType(a) = STR_COMP_ATTRIBUTE
                                                THEN KeyValue(a) ELSE KeyType(a)),
                        liberty_attribute_order(IF KeyType(b) = STR_COMP_ATTRIBUTE
                                                THEN KeyValue(b) ELSE KeyType(b)))
                  => Precedes(a, b)

\* A composite technology was inserted after a cell group and is emitted
\* before it.
C3_Witness ==
    /\ op = "liberty_dict"
    /\ DictKeys(dict_data) = <<KEY_CELL_X, KEY_COMP_TECHNOLOGY>>
    /\ dict_owner = <<<<>>, KEY_COMP_TECHNOLOGY, KEY_CELL_X, KEY_CELL_X, KEY_CELL_X, <<>>>>

\* The order value a key is sorted by
RankOf(k) ==
    liberty_attribute_order(IF KeyType(k) = STR_COMP_ATTRIBUTE THEN KeyValue(k)
                            ELSE KeyType(k))

Unranked(k) == RankOf(k) = <<Inf, Inf>>

(***************************************************************************)
(* C4 as stated: attributes with order value (infinity, infinity) are      *)
(* emitted after every ranked attribute and, amongst themselves, in the    *)
(* insertion order of the record.                                          *)
(***************************************************************************)
C4_UnrankedInInsertionOrder ==
    op = "liberty_dict" =>
        \A a, b \in RecordKeys :
            /\ (~Unranked(a) /\ Unranked(b)) => Precedes(a, b)
            /\ (Unranked(a) /\ Unranked(b) /\ Inserted(a) < Inserted(b)) => Precedes(a, b)

(***************************************************************************)
(* C4 amended: attributes with order value (infinity, infinity) are        *)
(* emitted after every ranked attribute and, amongst themselves, in the    *)
(* ascending order of their type tokens (by code point), whatever the      *)
(* insertion order of the record.                                          *)
(***************************************************************************)
C4_UnrankedByTypeToken ==
    op = "liberty_dict" =>
        \A a, b \in RecordKeys :
            /\ (~Unranked(a) /\ Unranked(b)) => Precedes(a, b)
            /\ (Unranked(a) /\ Unranked(b) /\ StrLess(KeyType(a), KeyType(b)))
                  => Precedes(a, b)

\* zeta was inserted before area and Beta and is emitted after both.
C4_Witness ==
    /\ op = "liberty_dict"
    /\ DictKeys(dict_data) = <<KEY_ZETA, KEY_AREA, KEY_UPPER>>
    /\ dict_owner = <<<<>>, KEY_UPPER, KEY_AREA, KEY_ZETA, <<>>>>

\* x is a list whose first element is a dict
IsGroupList(x) == x.t = "list" /\ x.v # <<>> /\ x.v[1].t = "dict"

\* The orders the elements of v can be given in
Permuted(v) ==
    {AsTuple([j \in 1..Len(v) |-> v[p[j]]]) : p \in Permutations(1..Len(v))}

\* The record with the list of key number i given in the order q
Reordered(data, i, q) == [data EXCEPT ![i] = <<data[i][1], List(q)>>]

\* Of any two elements of v one is a proper part of the other
IsChain(v) ==
    \A i, j \in 1..Len(v) : i # j => (ItemsLess(v[i], v[j]) \/ ItemsLess(v[j], v[i]))

(***************************************************************************)
(* C12: for a key whose value is a sequence of mappings, liberty_dict      *)
(* sorts the sequence before it recurses per element, so two records that  *)
(* differ only in the order of the elements of that sequence render to     *)
(* identical output.                                                       *)
(***************************************************************************)
C12_ElementOrderIrrelevant ==
    op = "liberty_dict" =>
        \A i \in 1..Len(dict_data) :
            IsGroupList(dict_data[i][2]) =>
                \A q \in Permuted(dict_data[i][2].v) :
                    liberty_dict(<<"g">>, <<>>, Reordered(dict_data, i, q), 0) = dict_out

\* What does hold: the order of the elements is irrelevant when they form a
\* chain, each a proper part of the next.
C12_ChainOrderIrrelevant ==
    op = "liberty_dict" =>
        \A i \in 1..Len(dict_data) :
            (IsGroupList(dict_data[i][2]) /\ IsChain(dict_data[i][2].v)) =>
                \A q \in Permuted(dict_data[i][2].v) :
                    liberty_dict(<<"g">>, <<>>, Reordered(dict_data, i, q), 0) = dict_out

\* Two timing groups that differ in related_pin were given as B, A and have
\* been written as B, A.
C12_GivenOrderKept ==
    /\ op = "liberty_dict"
    /\ dict_data = <<<<KEY_TIMING, List(<<GroupPool[2], GroupPool[1]>>)>>>>
    /\ dict_out.ok
    /\ dict_out.lines = liberty_dict(<<"g">>, <<>>, <<<<KEY_TIMING, GroupPool[2]>>, <<KEY_TIMING, GroupPool[1]>>>>, 0).lines

(***************************************************************************)
(* liberty_list as an action, on flat sequences and on tables              *)
(***************************************************************************)

\* The rows a table is built from: ints only, a float among ints, a float
\* alone, an int with a str, a str alone, nothing
RowPool ==
    <<List(<<Num(IntNum(FALSE, <<"1">>)), Num(IntNum(FALSE, <<"2">>))>>),
      List(<<Num(FloatNum(FALSE, <<"1","5">>, 1)), Num(IntNum(FALSE, <<"2">>))>>),
      List(<<Num(FloatNum(FALSE, <<"2","5">>, 1))>>),
      List(<<Num(IntNum(FALSE, <<"1">>)), Str(<<"x">>)>>),
      List(<<Str(<<"x">>)>>),
      List(<<>>)>>

MaxRows == 3

\* Tables of up to MaxRows rows of the pool
Tables == UNION {[1..n -> 1..Len(RowPool)] : n \in 1..MaxRows}

\* The rows of table q
TableOf(q) == AsTuple([r \in 1..Len(q) |-> RowPool[q[r]]])

\* The rows of the pool that can stand as a flat sequence: those not empty
FlatRows == {r \in 1..Len(RowPool) : RowPool[r].v # <<>>}

ListInit ==
    /\ list_v = <<>>
    /\ list_out = Raised

\* list_out = liberty_list("values", v, ('',))
liberty_list_call(v) ==
    /\ op = "init"
    /\ op' = "liberty_list"
    /\ list_v' = v
    /\ list_out' = liberty_list(STR_VALUES, v, 1)
    /\ UNCHANGED notList

\* liberty_list on a table, or on a flat sequence
LibertyList ==
    \/ \E q \in Tables : liberty_list_call(TableOf(q))
    \/ \E r \in FlatRows : liberty_list_call(RowPool[r].v)

ListNext == LibertyList

\* v is a table: isinstance(v[0], list)
IsTable(v) == v[1].t = "list"

\* The sequences liberty_list joins: the rows of a table, or the flat sequence
Joins(v) == IF IsTable(v) THEN AsTuple([r \in 1..Len(v) |-> v[r].v]) ELSE <<v>>

STR_ROW_END == <<"\"", ",", " ", "\\">>

STR_LIST_END == <<"\"", ")", ";">>

\* N lines, each but the last ending in a continuation backslash and the last
\* ending in ");"
TableShape(lines, n) ==
    /\ Len(lines) = n
    /\ \A r \in 1..(n - 1) : EndsWith(lines[r], STR_ROW_END)
    /\ EndsWith(lines[n], STR_LIST_END)

(***************************************************************************)
(* C13: the list renderer applies the homogeneity rule to every sequence   *)
(* it joins, every row of a table included: a sequence holding a float     *)
(* among floats and ints is rendered with float formatting, one of ints    *)
(* only as plain integers, and any other mix is a fatal error; a table of  *)
(* N rows is emitted as exactly N lines, each but the last ending in a     *)
(* continuation backslash and the last ending in ");".                     *)
(***************************************************************************)
C13_RuleOnEverySequence ==
    op = "liberty_list" =>
        LET js == Joins(list_v)
        IN  IF \E r \in 1..Len(js) : liberty_join(js[r]) = "raise"
            THEN ~list_out.ok
            ELSE /\ list_out.ok
                 /\ TableShape(list_out.lines, Len(js))
                 /\ \A r \in 1..Len(js) :
                        InStr(Quoted(joined(liberty_join(js[r]), js[r])), list_out.lines[r])

\* What does hold: the rule is applied to a flat sequence and to the first row
\* of a table, whose formatting every row gets, and the lines of a table are
\* as described.
C13_RuleOnFirstSequence ==
    op = "liberty_list" =>
        LET js == Joins(list_v)
        IN  IF liberty_join(js[1]) = "raise"
            THEN ~list_out.ok
            ELSE /\ list_out.ok
                 /\ TableShape(list_out.lines, Len(js))
                 /\ \A r \in 1..Len(js) :
                        InStr(Quoted(joined(liberty_join(js[1]), js[r])), list_out.lines[r])

\* A table whose first row is of ints has been written with the str of its
\* second row in it.
C13_StrInSecondRow ==
    /\ op = "liberty_list"
    /\ Len(list_v) = 2
    /\ list_out = Lines(<<Indent(1) \o STR_VALUES \o <<"(","\"","1",","," ","2","\"",","," ","\\">>,
                           Indent(2) \o <<"\"","1",","," ","x","\"",")",";">>>>)

(***************************************************************************)
(* remove_ccsnoise, and the guard generate puts in front of it             *)
(***************************************************************************)

STR_CCSN_ == <<"c","c","s","n","_">>

STR_PIN_ == <<"p","i","n"," ">>

STR_INPUT_VOLTAGE == <<"i","n","p","u","t","_","v","o","l","t","a","g","e">>

STR_TIMING_KEY == <<"t","i","m","i","n","g">>

\* ccsn_keys of a dict d: its keys that start with "ccsn_"
ccsn_keys(d) == {d[i][1] : i \in {j \in 1..Len(d) : StartsWith(d[j][1], STR_CCSN_)}}

\* for i, t in enumerate(pin_timing): delete the ccsn_ keys of t. Over a list
\* t is an entry. Over a dict t is a key of it, a string: the inner loop then
\* runs over the characters of the key, none of which starts with "ccsn_",
\* and nothing is deleted.
StripTiming(pin_timing) ==
    IF pin_timing.t = "list"
    THEN List(AsTuple([i \in 1..Len(pin_timing.v) |->
                LET t == pin_timing.v[i]
                IN  IF t.t = "dict" THEN Dict(DictWithout(t.v, ccsn_keys(t.v))) ELSE t]))
    ELSE pin_timing

\* The body of the loop for a key that starts with "pin "
StripPin(pin_data) ==
    LET d1 == DictWithout(pin_data, {STR_INPUT_VOLTAGE})
        d2 == DictWithout(d1, ccsn_keys(d1))
    IN  IF DictHas(d2, STR_TIMING_KEY)
        THEN DictSet(d2, STR_TIMING_KEY, StripTiming(DictGet(d2, STR_TIMING_KEY)))
        ELSE d2

\* remove_ccsnoise(data, cellname): the items of data after the call
remove_ccsnoise(data) ==
    LET kept == SelectSeq(data, LAMBDA it : ~InStr(STR_CCSN_, it[1]))
    IN  AsTuple([i \in 1..Len(kept) |->
            IF StartsWith(kept[i][1], STR_PIN_)
            THEN <<kept[i][1], Dict(StripPin(kept[i][2].v))>>
            ELSE kept[i]])

\* if ocorner_type != TimingType.ccsnoise: remove_ccsnoise(data, ...)
strip_for_output(ocorner_type, data) ==
    IF ocorner_type # ccsnoise THEN remove_ccsnoise(data) ELSE data

STAGE == Dict(<<<<<<"i","s","_","n","e","e","d","e","d">>, Str(<<"t","r","u","e">>)>>>>)

\* The items a loaded record is built from: plain attributes, groups of the
\* noise model at the top level, and pins. A pin is a dict; its timing is a
\* list of entries or, for a pin with one arc, a single entry.
StripPool ==
    <<<<<<"a","r","e","a">>, Num(IntNum(FALSE, <<"2">>))>>,
      <<<<"c","c","s","n","_","f","i","r","s","t","_","s","t","a","g","e">>, STAGE>>,
      <<<<"p","g","_","p","i","n"," ","c","c","s","n","_","g","n","d">>, Dict(<<<<<<"p","g","_","t","y","p","e">>, Str(<<"p","r","i","m","a","r","y","_","g","r","o","u","n","d">>)>>>>)>>,
      <<<<"p","i","n"," ","A">>, Dict(<<<<<<"d","i","r","e","c","t","i","o","n">>, Str(<<"i","n","p","u","t">>)>>,
                           <<<<"i","n","p","u","t","_","v","o","l","t","a","g","e">>, Str(<<"G","E","N","E","R","A","L">>)>>,
                           <<<<"c","c","s","n","_","f","i","r","s","t","_","s","t","a","g","e">>, STAGE>>>>)>>,
      <<<<"p","i","n"," ","X">>, Dict(<<<<<<"d","i","r","e","c","t","i","o","n">>, Str(<<"o","u","t","p","u","t">>)>>,
                           <<<<"c","c","s","n","_","l","a","s","t","_","s","t","a","g","e">>, STAGE>>,
                           <<<<"t","i","m","i","n","g">>, List(<<
                               Dict(<<<<<<"r","e","l","a","t","e","d","_","p","i","n">>, Str(<<"A">>)>>,
                                      <<<<"c","c","s","n","_","f","i","r","s","t","_","s","t","a","g","e">>, STAGE>>>>),
                               Dict(<<<<<<"c","c","s","n","_","l","a","s","t","_","s","t","a","g","e">>, STAGE>>,
                                      <<<<"r","e","l","a","t","e","d","_","p","i","n">>, Str(<<"B">>)>>>>)>>)>>>>)>>,
      <<<<"p","i","n"," ","Y">>, Dict(<<<<<<"d","i","r","e","c","t","i","o","n">>, Str(<<"o","u","t","p","u","t">>)>>,
                           <<<<"t","i","m","i","n","g">>, Dict(<<<<<<"r","e","l","a","t","e","d","_","p","i","n">>, Str(<<"A">>)>>,
                                                 <<<<"c","c","s","n","_","f","i","r","s","t","_","s","t","a","g","e">>, STAGE>>>>)>>>>)>>>>

MaxStripItems == 3

StripRecords ==
    {AsTuple([i \in 1..Len(q) |-> StripPool[q[i]]]) :
        q \in {p \in UNION {[1..n -> 1..Len(StripPool)] : n \in 0..MaxStripItems} :
                  \A i, j \in 1..Len(p) : i # j => p[i] # p[j]}}

StripInit ==
    /\ strip_otype = basic
    /\ strip_in = <<>>
    /\ strip_out = <<>>

\* generate, at a loaded record: strip it unless the output is ccsnoise
StripForOutput ==
    \E rec \in StripRecords, ot \in {basic, ccsnoise, leakage} :
        /\ op = "init"
        /\ op' = "strip"
        /\ strip_otype' = ot
        /\ strip_in' = rec
        /\ strip_out' = strip_for_output(ot, rec)
        /\ UNCHANGED notStrip

StripNext == StripForOutput

\* The entries of a pin's timing: those of the list, or the single entry
TimingEntries(pin_data) ==
    IF ~DictHas(pin_data, STR_TIMING_KEY) THEN {}
    ELSE LET tm == DictGet(pin_data, STR_TIMING_KEY)
         IN  IF tm.t = "list" THEN {tm.v[i].v : i \in 1..Len(tm.v)} ELSE {tm.v}

\* The pin groups of a record
Pins(data) ==
    {data[i][2].v : i \in {j \in 1..Len(data) : StartsWith(data[j][1], STR_PIN_)}}

KeySet(d) == {d[i][1] : i \in 1..Len(d)}

\* The keys the claim allows to go: those that start with "ccsn_", and
\* input_voltage
MayGo(k) == StartsWith(k, STR_CCSN_) \/ k = STR_INPUT_VOLTAGE

\* d without the keys that may go
Others(d) == SelectSeq(d, LAMBDA it : ~MayGo(it[1]))

\* Every key and value of a timing entry, a pin or a record that is not to
\* go is in the result as it was
EntryKept(before, after) == Others(before) = Others(after)

TimingKept(before, after) ==
    IF before.t = "list"
    THEN /\ after.t = "list" /\ Len(after.v) = Len(before.v)
         /\ \A i \in 1..Len(before.v) : EntryKept(before.v[i].v, after.v[i].v)
    ELSE after.t = "dict" /\ EntryKept(before.v, after.v)

PinKept(before, after) ==
    /\ DictKeys(Others(before)) = DictKeys(Others(after))
    /\ \A k \in KeySet(Others(before)) :
          IF k = STR_TIMING_KEY
          THEN TimingKept(DictGet(before, k), DictGet(after, k))
          ELSE DictGet(before, k) = DictGet(after, k)

RecordKept(before, after) ==
    /\ DictKeys(Others(before)) = DictKeys(Others(after))
    /\ \A k \in KeySet(Others(before)) :
          IF StartsWith(k, STR_PIN_)
          THEN PinKept(DictGet(before, k).v, DictGet(after, k).v)
          ELSE DictGet(before, k) = DictGet(after, k)

(***************************************************************************)
(* C6 as stated: when the output variant is not ccsnoise, the stripped     *)
(* record holds no key with the ccsn_ prefix at the top level, in a pin or *)
(* in a timing entry of a pin (a list of entries or a single entry), it    *)
(* holds no input_voltage key, and every other key and value is unchanged. *)
(***************************************************************************)
C6_StrippedEverywhere ==
    (op = "strip" /\ strip_otype # ccsnoise) =>
        /\ \A k \in KeySet(strip_out) : ~MayGo(k)
        /\ \A pin \in Pins(strip_out) :
              /\ \A k \in KeySet(pin) : ~MayGo(k)
              /\ \A t \in TimingEntries(pin) : \A k \in KeySet(t) : ~MayGo(k)
        /\ RecordKept(strip_in, strip_out)

(***************************************************************************)
(* collect: the inventory of corners and cells of a library directory      *)
(***************************************************************************)

\* str.split(sep) for a separator of any length
RECURSIVE SplitStr(_, _)
SplitStr(str, sep) ==
    LET i == Find(str, sep)
    IN  IF i = -1 THEN <<str>>
        ELSE <<Slice(str, 1, i)>> \o SplitStr(Slice(str, i + Len(sep) + 1, Len(str)), sep)

\* str.replace(old, new)
RECURSIVE Replace(_, _, _)
Replace(str, old, new) ==
    IF Len(str) < Len(old) THEN str
    ELSE IF StartsWith(str, old)
    THEN new \o Replace(Slice(str, Len(old) + 1, Len(str)), old, new)
    ELSE <<Head(str)>> \o Replace(Tail(str), old, new)

\* p.name: the last component of a path
BaseName(p) == LET parts == Split(p, "/") IN parts[Len(parts)]

\* sorted(S) for a set of strings
RECURSIVE SortedStrings(_)
SortedStrings(S) ==
    IF S = {} THEN <<>>
    ELSE LET least == CHOOSE x \in S : \A y \in S \ {x} : StrLess(x, y)
         IN  <<least>> \o SortedStrings(S \ {least})

\* The state of collect before the first file: libname0 is None (the empty
\* sequence here, and <<name>> once it is set)
CollectStart ==
    [ok |-> TRUE, libname0 |-> <<>>, corners |-> <<>>, all_cells |-> {}]

\* A scan step that stores the variant of the file instead of adding it to
\* the corner's union
collect_fileLastWins(acc, p) ==
    LET fname == Split(BaseName(p), ".")[1]
        parts == SplitStr(fname, STR_SEP)
    IN  IF Len(parts) # 3 THEN [acc EXCEPT !.ok = FALSE]
        ELSE LET l0 == IF acc.libname0 = <<>> THEN <<parts[1]>> ELSE acc.libname0
                 pr == parse(parts[3])
                 old == IF pr.name \in DOMAIN acc.corners
                        THEN acc.corners[pr.name]
                        ELSE [ctype |-> pr.ttype, cells |-> {}]
             IN  IF l0[1] # parts[1] THEN [acc EXCEPT !.ok = FALSE, !.libname0 = l0]
                 ELSE [ok |-> TRUE,
                       libname0 |-> l0,
                       corners |-> (pr.name :> [ctype |-> pr.ttype,
                                                cells |-> old.cells \cup {parts[2]}])
                                   @@ acc.corners,
                       all_cells |-> acc.all_cells \cup {parts[2]}]

\* The files the loop over rglob("*.lib.json") does not pass over: those
\* without "timing" in their path. (The path of the library directory is
\* taken to hold no "timing".)
scanned_files(d) == {p \in d : EndsWith(p, STR_LIB_JSON) /\ ~InStr(STR_TIMING_KEY, p)}

\* The body of the loop for one such path p. corners is a function from
\* corner names: a dict compared, as dicts are, by its items.
collect_file(acc, p) ==
    LET fname == Split(BaseName(p), ".")[1]
        parts == SplitStr(fname, STR_SEP)
    IN  IF Len(parts) # 3 THEN [acc EXCEPT !.ok = FALSE]
        ELSE LET l0 == IF acc.libname0 = <<>> THEN <<parts[1]>> ELSE acc.libname0
                 pr == parse(parts[3])
                 old == IF pr.name \in DOMAIN acc.corners
                        THEN acc.corners[pr.name]
                        ELSE [ctype |-> pr.ttype, cells |-> {}]
             IN  IF l0[1] # parts[1] THEN [acc EXCEPT !.ok = FALSE, !.libname0 = l0]
                 ELSE [ok |-> TRUE,
                       libname0 |-> l0,
                       corners |-> (pr.name :> [ctype |-> FlagOr(old.ctype, pr.ttype),
                                                cells |-> old.cells \cup {parts[2]}])
                                   @@ acc.corners,
                       all_cells |-> acc.all_cells \cup {parts[2]}]

\* What collect fails with, and what it returns
NotCollected == [ok |-> FALSE, lib |-> <<>>, corners |-> <<>>, all_cells |-> <<>>]

\* collect after the loop: the cell sets sorted, the three assertions
collect_return(acc) ==
    IF DOMAIN acc.corners = {} \/ acc.all_cells = {} \/ acc.libname0 = <<>>
       \/ acc.libname0 = <<<<>>>>
    THEN NotCollected
    ELSE [ok |-> TRUE,
          lib |-> acc.libname0[1],
          corners |-> [c \in DOMAIN acc.corners |->
                          [ctype |-> acc.corners[c].ctype,
                           cells |-> SortedStrings(acc.corners[c].cells)]],
          all_cells |-> SortedStrings(acc.all_cells)]

(***************************************************************************)
(* generate: the library file of one corner                                *)
(***************************************************************************)

STR_COMMON == <<"_","_","c","o","m","m","o","n",".","l","i","b",".","j","s","o","n">>

STR_DOT_LIB == <<".","l","i","b">>

STR_LIBRARY == <<"l","i","b","r","a","r","y">>

STR_CELL == <<"c","e","l","l">>

\* The record json.load gives for a file: the files of one library hold the
\* same attributes, the ccsnoise flavour with the noise model on top of the
\* basic attributes and the leakage flavour with the leakage power
json_load(p) ==
    IF EndsWith(p, STR_COMMON)
    THEN <<<<<<"d","e","l","a","y","_","m","o","d","e","l">>, Str(<<"t","a","b","l","e","_","l","o","o","k","u","p">>)>>>>
    ELSE IF StartsWith(p, STR_TIMING)
    THEN <<<<<<"t","i","m","e","_","u","n","i","t">>, Str(<<"1","n","s">>)>>>>
    ELSE LET ttype == parse(SplitStr(Split(BaseName(p), ".")[1], STR_SEP)[3]).ttype
             pin == <<<<<<"d","i","r","e","c","t","i","o","n">>, Str(<<"i","n","p","u","t">>)>>>>
                    \o (IF ttype = ccsnoise
                        THEN <<<<<<"i","n","p","u","t","_","v","o","l","t","a","g","e">>, Str(<<"G","E","N","E","R","A","L">>)>>,
                               <<<<"c","c","s","n","_","f","i","r","s","t","_","s","t","a","g","e">>, STAGE>>>>
                        ELSE <<>>)
         IN  <<<<<<"a","r","e","a">>, Num(IntNum(FALSE, <<"2">>))>>>>
             \o (IF ttype = leakage
                 THEN <<<<<<"c","e","l","l","_","l","e","a","k","a","g","e","_","p","o","w","e","r">>, Num(FloatNum(FALSE, <<"5">>, 0))>>>>
                 ELSE <<>>)
             \o <<<<<<"p","i","n"," ","A">>, Dict(pin)>>>>

\* common_data[k] = v for every item of the corner's record, over the common
\* record
RECURSIVE Merge(_, _)
Merge(common_data, d) ==
    IF d = <<>> THEN common_data
    ELSE Merge(DictSet(common_data, Head(d)[1], Head(d)[2]), Tail(d))

\* What generate leaves: whether it returned, whether it had opened the
\* output file, the path of that file and the lines written to it
Generated(ok, opened, path, written) ==
    [ok |-> ok, opened |-> opened, path |-> path, written |-> written]

\* The function fn with every value of it computed
Tabulated(fn) == fn @@ <<>>

LIB == <<"l","i","b">>

OTHER_LIB == <<"o","l","d">>

CORNER_TT == <<"t","t">>

CORNER_FF == <<"f","f">>

CORNER_UNKNOWN == <<"z","z">>

CELL_A == <<"a">>

CELL_B == <<"b","_","2">>

\* The arguments generate can be given in the directories below
GenerateArguments ==
    {LIB, OTHER_LIB} \X {CORNER_TT, CORNER_FF} \X {basic, ccsnoise, leakage}
    \X {basic, ccsnoise, leakage}

\* liberty_dict("library", lib+"__"+corner, common_data) of the common record
\* with the corner's record loaded into it, stripped for the output variant
library_group(lib, corner, ocorner_type, icorner_type) ==
    liberty_dict(STR_LIBRARY, lib \o STR_SEP \o corner,
        strip_for_output(ocorner_type,
            Merge(json_load(STR_TIMING \o lib \o STR_COMMON),
                  json_load(top_corner_file(lib, corner, icorner_type).path))),
        0)

\* library_group for each of the arguments, computed once
LibraryGroups ==
    Tabulated([g \in GenerateArguments |-> library_group(g[1], g[2], g[3], g[4])])

\* liberty_dict("cell", lib__cell, cell_data, [cell_with_size]) of the cell's
\* record, stripped for the output variant
cell_group(lib, cell_with_size, corner, ocorner_type, icorner_type) ==
    liberty_dict(STR_CELL, lib \o STR_SEP \o cell_with_size,
        strip_for_output(ocorner_type,
            json_load(cell_corner_file(lib, cell_with_size, corner, icorner_type).path)),
        1)

\* cell_group for each of the arguments and cells, computed once
CellGroups ==
    Tabulated([g \in GenerateArguments \X {CELL_A, CELL_B} |->
                  cell_group(g[1][1], g[2], g[1][2], g[1][3], g[1][4])])

\* The loop over the cells: the lines written, and whether it got through
RECURSIVE WriteCells(_, _, _, _, _, _)
WriteCells(files, lib, corner, ocorner_type, icorner_type, cells) ==
    IF cells = <<>> THEN Lines(<<>>)
    ELSE LET fname == cell_corner_file(lib, Head(cells), corner, icorner_type)
         IN  IF ~fname.ok \/ fname.path \notin files THEN Raised
             ELSE LET out == CellGroups[<<<<lib, corner, ocorner_type, icorner_type>>,
                                          Head(cells)>>]
                      rest == WriteCells(files, lib, corner, ocorner_type, icorner_type,
                                         Tail(cells))
                  IN  IF ~out.ok THEN [ok |-> FALSE, lines |-> <<<<>>>>]
                      ELSE [ok |-> rest.ok, lines |-> <<<<>>>> \o out.lines \o rest.lines]

\* generate once the library group is rendered: the group without its
\* closing line, the cells, an empty line and the closing line
generate_write(top_fpath, output, body) ==
    IF ~output.ok THEN Generated(FALSE, TRUE, top_fpath, <<>>)
    ELSE IF ~body.ok
    THEN Generated(FALSE, TRUE, top_fpath, DropLast(output.lines, 1) \o body.lines)
    ELSE Generated(TRUE, TRUE, top_fpath,
                   DropLast(output.lines, 1) \o body.lines \o <<<<>>, <<"}">>>>)

\* generate once the output file is open: the two records of the timing
\* directory must be there
generate_open(files, lib, corner, ocorner_type, icorner_type, cells, top_fpath, common_data_path, top_data_path) ==
    IF common_data_path \notin files
       \/ ~top_data_path.ok \/ top_data_path.path \notin files
    THEN Generated(FALSE, TRUE, top_fpath, <<>>)
    ELSE generate_write(top_fpath,
            LibraryGroups[<<lib, corner, ocorner_type, icorner_type>>],
            WriteCells(files, lib, corner, ocorner_type, icorner_type, cells))

\* The path of the output file: that of the corner's record for the output
\* variant, with ".lib" for ".lib.json"
output_path(top_fname) == Replace(top_fname.path, STR_LIB_JSON, STR_DOT_LIB)

\* generate(library_dir, lib, corner, ocorner_type, icorner_type, cells) in a
\* directory that holds the files given
generate(files, lib, corner, ocorner_type, icorner_type, cells) ==
    IF ~top_corner_file(lib, corner, ocorner_type).ok
    THEN Generated(FALSE, FALSE, <<>>, <<>>)
    ELSE generate_open(files, lib, corner, ocorner_type, icorner_type, cells,
                       output_path(top_corner_file(lib, corner, ocorner_type)),
                       STR_TIMING \o lib \o STR_COMMON,
                       top_corner_file(lib, corner, icorner_type))

(***************************************************************************)
(* main                                                                    *)
(***************************************************************************)

STR_ALL == <<"a","l","l">>

\* output_corner_type from the two flags
output_corner_type(a) ==
    IF a.ccsnoise THEN ccsnoise ELSE IF a.leakage THEN leakage ELSE basic

\* A check that lets every corner through
supportsAnything(ocorner_type, capability) == TRUE

\* output_corner_type in input_corner_type
supports(ocorner_type, capability) == FlagIn(ocorner_type, capability)

\* args.corner after the "all" selection and the check for unknown corners:
\* the list main loops over, and retcode
selected_corners(a, cs) ==
    LET named == IF a.corner = <<STR_ALL>>
                 THEN SortedStrings({k \in DOMAIN cs :
                                        supports(output_corner_type(a), cs[k].ctype)})
                 ELSE a.corner
        unknown == \E i \in 1..Len(named) : named[i] \notin DOMAIN cs
    IN  IF unknown THEN [corner |-> <<>>, retcode |-> 1]
        ELSE [corner |-> named, retcode |-> 0]

\* input_corner_type for a corner with the capability given
input_corner_type(ocorner_type, capability) ==
    IF ocorner_type = basic /\ FlagIn(ccsnoise, capability) THEN ccsnoise
    ELSE ocorner_type

\* The per-cell files a library directory may hold
CellFiles ==
    {cell_corner_file(LIB, c, CORNER_TT, t).path :
        c \in {CELL_A, CELL_B}, t \in {basic, ccsnoise, leakage}}
    \cup {cell_corner_file(LIB, CELL_A, CORNER_FF, t).path : t \in {basic, leakage}}
    \cup {cell_corner_file(OTHER_LIB, CELL_A, CORNER_TT, basic).path}

\* The files of the timing directory: the common record and a record for
\* every corner and variant
TimingFiles ==
    {STR_TIMING \o LIB \o STR_COMMON}
    \cup {top_corner_file(LIB, c, t).path :
            c \in {CORNER_TT, CORNER_FF}, t \in {basic, ccsnoise, leakage}}

\* The timing directories: complete, or without one of two files
TimingDirs ==
    {TimingFiles,
     TimingFiles \ {STR_TIMING \o LIB \o STR_COMMON},
     TimingFiles \ {top_corner_file(LIB, CORNER_TT, ccsnoise).path}}

MaxCellFiles == 3

Directories ==
    {cf \cup td : cf \in {s \in SUBSET CellFiles : Cardinality(s) <= MaxCellFiles},
                  td \in TimingDirs}

Arguments ==
    [corner : {<<STR_ALL>>, <<>>, <<CORNER_TT, CORNER_FF>>, <<CORNER_TT, CORNER_UNKNOWN>>},
     ccsnoise : BOOLEAN, leakage : {FALSE}]
    \cup [corner : {<<STR_ALL>>, <<>>, <<CORNER_TT, CORNER_FF>>,
                    <<CORNER_TT, CORNER_UNKNOWN>>},
          ccsnoise : {FALSE}, leakage : {TRUE}]

MainInit ==
    /\ fs = {}
    /\ argv = [corner |-> <<>>, ccsnoise |-> FALSE, leakage |-> FALSE]
    /\ todo = {}
    /\ scanned = CollectStart
    /\ collected = NotCollected
    /\ sel = <<>>
    /\ calls = <<>>
    /\ retcode = 0

\* main up to the call of collect, and collect up to its loop: todo holds
\* the files whose turn of the loop does something. Of its arguments main
\* has used the library path only.
MainStart ==
    \E d \in Directories :
        /\ op = "init"
        /\ op' = "collect"
        /\ fs' = d
        /\ todo' = scanned_files(d)
        /\ scanned' = CollectStart
        /\ UNCHANGED <<argv, collected, sel, calls, retcode, notMain>>

\* One turn of the loop of collect: rglob yields the files in an order of
\* its own
CollectFile ==
    \E p \in todo :
        /\ op = "collect"
        /\ scanned' = collect_file(scanned, p)
        /\ todo' = todo \ {p}
        /\ op' = IF scanned'.ok THEN "collect" ELSE "raised"
        /\ UNCHANGED <<fs, argv, collected, sel, calls, retcode, notMain>>

\* collect after its loop
CollectReturn ==
    /\ op = "collect"
    /\ todo = {}
    /\ collected' = collect_return(scanned)
    /\ op' = IF collected'.ok THEN "select" ELSE "raised"
    /\ UNCHANGED <<fs, argv, todo, scanned, sel, calls, retcode, notMain>>

\* main from the choice of the output variant to the loop over the corners:
\* the flags and the corners named are read here
MainSelect ==
    \E a \in Arguments :
        /\ op = "select"
        /\ argv' = a
        /\ sel' = selected_corners(a, collected.corners).corner
        /\ retcode' = selected_corners(a, collected.corners).retcode
        /\ op' = IF sel' = <<>> THEN "exit" ELSE "loop"
        /\ UNCHANGED <<fs, todo, scanned, collected, calls, notMain>>

\* The call of generate for a corner, with what the call left
generate_call(files, c, corner, ocorner_type) ==
    [corner |-> corner,
     ocorner_type |-> ocorner_type,
     icorner_type |-> input_corner_type(ocorner_type, c.corners[corner].ctype),
     cells |-> c.corners[corner].cells,
     out |-> generate(files, c.lib, corner, ocorner_type,
                      input_corner_type(ocorner_type, c.corners[corner].ctype),
                      c.corners[corner].cells)]

\* One turn of the loop of main: the run ends with 1 at a corner without
\* the output variant; generate is called for any other
MainCorner ==
    /\ op = "loop"
    /\ sel # <<>>
    /\ IF ~supports(output_corner_type(argv), collected.corners[Head(sel)].ctype)
       THEN /\ op' = "exit"
            /\ retcode' = 1
            /\ UNCHANGED <<sel, calls>>
       ELSE /\ calls' = Append(calls, generate_call(fs, collected, Head(sel),
                                                    output_corner_type(argv)))
            /\ sel' = Tail(sel)
            /\ op' = IF calls'[Len(calls')].out.ok THEN "loop" ELSE "raised"
            /\ UNCHANGED retcode
    /\ UNCHANGED <<fs, argv, todo, scanned, collected, notMain>>

\* return 0 after the last corner
MainReturn ==
    /\ op = "loop"
    /\ sel = <<>>
    /\ op' = "exit"
    /\ retcode' = 0
    /\ UNCHANGED <<fs, argv, todo, scanned, collected, sel, calls, notMain>>

MainNext ==
    \/ MainStart
    \/ CollectFile
    \/ CollectReturn
    \/ MainSelect
    \/ MainCorner
    \/ MainReturn

\* The parts of the name of a per-cell file: library, cell, corner with its
\* variant suffix
FileParts(p) == SplitStr(Split(BaseName(p), ".")[1], STR_SEP)

LibOf(p) == FileParts(p)[1]

CellOf(p) == FileParts(p)[2]

CornerOf(p) == parse(FileParts(p)[3]).name

VariantOf(p) == parse(FileParts(p)[3]).ttype

\* l is in ascending order without duplicates
Ascending(l) == \A i, j \in 1..Len(l) : i < j => StrLess(l[i], l[j])

Elements(l) == {l[i] : i \in 1..Len(l)}

\* The variants of a set of files, as one flag value
UnionOfVariants(files) == UNION {BitsOf(VariantOf(p)) : p \in files}

(***************************************************************************)
(* C8: whatever the order of the scan, the accumulators of collect are a   *)
(* function of the set of files scanned so far, and what collect returns   *)
(* is a function of the set of per-cell files: each corner's variant value *)
(* is the union of the variants of the files naming the corner, its cell   *)
(* list is the sorted duplicate-free set of their cells, and the global    *)
(* cell list is the sorted union of the cells of all corners. collect      *)
(* fails exactly when there is no per-cell file or two libraries.          *)
(***************************************************************************)
C8_CollectIsUnionOfFiles ==
    /\ (op = "collect" /\ scanned.ok) =>
          LET done == scanned_files(fs) \ todo
          IN  /\ DOMAIN scanned.corners = {CornerOf(p) : p \in done}
              /\ \A c \in DOMAIN scanned.corners :
                    /\ BitsOf(scanned.corners[c].ctype)
                          = UnionOfVariants({p \in done : CornerOf(p) = c})
                    /\ scanned.corners[c].cells = {CellOf(p) : p \in {q \in done : CornerOf(q) = c}}
              /\ scanned.all_cells = {CellOf(p) : p \in done}
    /\ collected.ok =>
          LET files == scanned_files(fs)
          IN  /\ DOMAIN collected.corners = {CornerOf(p) : p \in files}
              /\ \A c \in DOMAIN collected.corners :
                    /\ BitsOf(collected.corners[c].ctype)
                          = UnionOfVariants({p \in files : CornerOf(p) = c})
                    /\ Ascending(collected.corners[c].cells)
                    /\ Elements(collected.corners[c].cells)
                          = {CellOf(p) : p \in {q \in files : CornerOf(q) = c}}
              /\ Ascending(collected.all_cells)
              /\ Elements(collected.all_cells)
                    = UNION {Elements(collected.corners[c].cells) :
                                c \in DOMAIN collected.corners}
              /\ Cardinality({LibOf(p) : p \in files}) = 1
    /\ (op = "raised" /\ ~collected.ok) =>
          Cardinality({LibOf(p) : p \in scanned_files(fs)}) # 1

\* collect has returned for a directory with three files of two corners: one
\* corner has a ccsnoise file of one cell and a leakage file of another
C8_Witness ==
    /\ collected.ok
    /\ Cardinality(scanned_files(fs)) = 3
    /\ DOMAIN collected.corners = {CORNER_TT, CORNER_FF}
    /\ collected.corners[CORNER_TT].ctype = 7
    /\ collected.corners[CORNER_TT].cells = <<CELL_A, CELL_B>>
    /\ collected.all_cells = <<CELL_A, CELL_B>>

\* The capability union collect found for a corner
Capability(corner) == collected.corners[corner].ctype

\* The corners generate was called for, in the order of the calls
Generated_corners == AsTuple([i \in 1..Len(calls) |-> calls[i].corner])

\* The named corners are all known, and the first of them without the
\* output variant is the i-th
FirstWithout(i) ==
    /\ argv.corner # <<STR_ALL>>
    /\ \A j \in 1..Len(argv.corner) : argv.corner[j] \in DOMAIN collected.corners
    /\ i \in 1..Len(argv.corner)
    /\ ~FlagIn(output_corner_type(argv), Capability(argv.corner[i]))
    /\ \A j \in 1..(i - 1) : FlagIn(output_corner_type(argv), Capability(argv.corner[j]))

(***************************************************************************)
(* C9: every call of generate has an output variant contained in the       *)
(* corner's capability union and a singular input variant contained in it. *)
(* With corners named, generate is not called for the first corner without *)
(* the output variant nor for any after it, and the run returns 1 there.   *)
(* With "all", the corners generate is called for are, in sorted order,    *)
(* corners whose capability contains the output variant, and all of them   *)
(* once the run has returned.                                              *)
(***************************************************************************)
C9_GenerateOnlyWithinCapability ==
    /\ \A i \in 1..Len(calls) :
          /\ FlagIn(calls[i].ocorner_type, Capability(calls[i].corner))
          /\ singular(calls[i].icorner_type)
          /\ FlagIn(calls[i].icorner_type, Capability(calls[i].corner))
          /\ calls[i].ocorner_type = output_corner_type(argv)
    /\ collected.ok =>
          \A i \in 1..Len(argv.corner) :
              FirstWithout(i) =>
                  /\ Len(calls) < i
                  /\ Generated_corners = Slice(argv.corner, 1, Len(calls))
                  /\ op = "exit" => (retcode = 1 /\ Len(calls) = i - 1)
    /\ (collected.ok /\ argv.corner = <<STR_ALL>>) =>
          LET able == SortedStrings({c \in DOMAIN collected.corners :
                          FlagIn(output_corner_type(argv), Capability(c))})
          IN  /\ Generated_corners = Slice(able, 1, Len(calls))
              /\ op = "exit" => (retcode = 0 /\ Generated_corners = able)

\* Two corners were named: generate was called for the first, the second has
\* no file of the output variant and the run returned 1 there
C9_Witness ==
    /\ op = "exit"
    /\ retcode = 1
    /\ argv.corner = <<CORNER_TT, CORNER_FF>>
    /\ Len(calls) = 1
    /\ calls[1].out.ok
    /\ FirstWithout(2)

\* The directory of the same corner holding only basic records: the timing
\* directory and a basic file for each cell of the corner
BasicOnly(lib, corner, cells) ==
    {STR_TIMING \o lib \o STR_COMMON, top_corner_file(lib, corner, basic).path}
    \cup {cell_corner_file(lib, cells[i], corner, basic).path : i \in 1..Len(cells)}

\* The timing directory holds what generate reads for the corner, from
\* either flavour
TimingComplete(lib, corner) ==
    {STR_TIMING \o lib \o STR_COMMON, top_corner_file(lib, corner, basic).path,
     top_corner_file(lib, corner, ccsnoise).path} \subseteq fs

(***************************************************************************)
(* C7 as stated: for a corner whose capability union is {basic, ccsnoise}  *)
(* and a request for basic output, generate is given the ccsnoise input,   *)
(* completes, and writes what it writes for the same corner holding only   *)
(* basic records, whatever per-cell files yield that capability union.     *)
(***************************************************************************)
C7_BasicFromNoiseAsFromBasic ==
    \A i \in 1..Len(calls) :
        (/\ BitsOf(Capability(calls[i].corner)) = BitsOf(basic) \cup BitsOf(ccsnoise)
         /\ calls[i].ocorner_type = basic
         /\ TimingComplete(collected.lib, calls[i].corner))
        => /\ calls[i].icorner_type = ccsnoise
           /\ calls[i].out.ok
           /\ calls[i].out.written
                 = generate(BasicOnly(collected.lib, calls[i].corner, calls[i].cells),
                            collected.lib, calls[i].corner, basic, basic,
                            calls[i].cells).written

\* The same when every cell of the corner has a ccsnoise file
C7_WhenEveryCellHasNoise ==
    \A i \in 1..Len(calls) :
        (/\ BitsOf(Capability(calls[i].corner)) = BitsOf(basic) \cup BitsOf(ccsnoise)
         /\ calls[i].ocorner_type = basic
         /\ TimingComplete(collected.lib, calls[i].corner)
         /\ \A j \in 1..Len(calls[i].cells) :
               cell_corner_file(collected.lib, calls[i].cells[j], calls[i].corner,
                                ccsnoise).path \in fs)
        => /\ calls[i].icorner_type = ccsnoise
           /\ calls[i].out.ok
           /\ calls[i].out.written
                 = generate(BasicOnly(collected.lib, calls[i].corner, calls[i].cells),
                            collected.lib, calls[i].corner, basic, basic,
                            calls[i].cells).written

(***************************************************************************)
(* What a call of generate leaves of the corner's output file              *)
(***************************************************************************)

\* The arguments of call c as LibraryGroups and CellGroups take them
GroupArguments(c) == <<collected.lib, c.corner, c.ocorner_type, c.icorner_type>>

\* The common record is not in the directory
CommonMissing == (STR_TIMING \o collected.lib \o STR_COMMON) \notin fs

\* The corner's record of the input variant is not in the directory
TopMissing(c) ==
    /\ top_corner_file(collected.lib, c.corner, c.icorner_type).ok
    /\ top_corner_file(collected.lib, c.corner, c.icorner_type).path \notin fs

\* The record of one of the cells is not in the directory
CellMissing(c) ==
    \E n \in 1..Len(c.cells) :
        /\ cell_corner_file(collected.lib, c.cells[n], c.corner, c.icorner_type).ok
        /\ cell_corner_file(collected.lib, c.cells[n], c.corner, c.icorner_type).path \notin fs

\* The call ended at one of the three assertions on a path
AbortedOnMissing(c) == ~c.out.ok /\ (CommonMissing \/ TopMissing(c) \/ CellMissing(c))

\* The cell groups of the cells, one after the other
RECURSIVE CellGroupLines(_, _)
CellGroupLines(g, cells) ==
    IF cells = <<>> THEN <<>>
    ELSE CellGroups[<<g, Head(cells)>>].lines \o CellGroupLines(g, Tail(cells))

\* The library group without its closing line, the cell groups in the order
\* of the cell list, a closing line
Layout(c) ==
    DropLast(LibraryGroups[GroupArguments(c)].lines, 1)
    \o CellGroupLines(GroupArguments(c), c.cells)
    \o <<<<"}">>>>

\* The lines that are not empty
NonEmpty(lines) == SelectSeq(lines, LAMBDA l : l # <<>>)

\* s is the beginning of t
IsPrefix(s, t) == Len(s) <= Len(t) /\ Slice(t, 1, Len(s)) = s

(***************************************************************************)
(* C14: generate is all-or-nothing per corner. When it aborts because the  *)
(* common record, the corner's record or the record of a cell is missing,  *)
(* the corner's output file has not been created, truncated or partially   *)
(* written by the call; when it completes, the file holds the library      *)
(* group without its closing brace, then one cell group per cell in the    *)
(* order of the cell list, then one closing brace.                         *)
(***************************************************************************)
C14_AllOrNothing ==
    \A i \in 1..Len(calls) :
        /\ AbortedOnMissing(calls[i]) =>
               (~calls[i].out.opened /\ calls[i].out.written = <<>>)
        /\ calls[i].out.ok => NonEmpty(calls[i].out.written) = Layout(calls[i])

\* What does hold: a call that completes leaves the file as described; a call
\* that aborts on a missing record has opened the file for writing, and has
\* written the beginning of it when the record is that of a cell.
C14_OpenedBeforeTheChecks ==
    \A i \in 1..Len(calls) :
        /\ calls[i].out.ok => NonEmpty(calls[i].out.written) = Layout(calls[i])
        /\ AbortedOnMissing(calls[i]) =>
               /\ calls[i].out.opened
               /\ IsPrefix(NonEmpty(calls[i].out.written), Layout(calls[i]))
               /\ (CommonMissing \/ TopMissing(calls[i])) => calls[i].out.written = <<>>
               /\ ~(CommonMissing \/ TopMissing(calls[i])) =>
                      IsPrefix(DropLast(LibraryGroups[GroupArguments(calls[i])].lines, 1),
                               calls[i].out.written)

\* The three ways a call aborts on a missing record
C14_CommonMissing ==
    \E i \in 1..Len(calls) : ~calls[i].out.ok /\ CommonMissing

C14_TopMissing ==
    \E i \in 1..Len(calls) : ~calls[i].out.ok /\ ~CommonMissing /\ TopMissing(calls[i])

C14_CellMissing ==
    \E i \in 1..Len(calls) :
        /\ ~calls[i].out.ok /\ ~CommonMissing /\ ~TopMissing(calls[i])
        /\ CellMissing(calls[i])
        /\ calls[i].out.written # <<>>

\* A call has completed for a corner of two cells
C14_Completed ==
    \E i \in 1..Len(calls) : calls[i].out.ok /\ Len(calls[i].cells) = 2

(***************************************************************************)
(* Specifications: one per component, all from the same initial state      *)
(***************************************************************************)

Init ==
    /\ op = "init"
    /\ TimingInit
    /\ FloatInit
    /\ OrderInit
    /\ DictInit
    /\ ListInit
    /\ StripInit
    /\ MainInit

SpecTiming == Init /\ [][TimingNext]_vars

SpecFloat == Init /\ [][FloatNext]_vars

SpecOrder == Init /\ [][OrderNext]_vars

SpecDict == Init /\ [][DictNext]_vars

SpecList == Init /\ [][ListNext]_vars

SpecStrip == Init /\ [][StripNext]_vars

SpecMain == Init /\ [][MainNext]_vars

====
